---- MODULE Spec2Model ----
(***************************************************************************)
(* A model of komuzik's download orchestration: the per-user admission     *)
(* controller (download_limiter.py), the download handlers that take and   *)
(* release its slots, the routing of messages and button presses, the      *)
(* report capture (handlers.py) and the fetch operations (downloaders.py). *)
(*                                                                         *)
(* Five specifications share the module's variables:                       *)
(*   SpecLimiter  the DownloadLimiter under arbitrary sequences of API     *)
(*                calls (the way test_limiter.py drives it);               *)
(*   Spec         concurrent bot handlers sharing one DownloadLimiter;     *)
(*   SpecTikTok   one call of download_tiktok_video;                       *)
(*   SpecFetch    one fetch operation: download_tiktok_video,              *)
(*                download_twitter_video, download_youtube_video/_audio,   *)
(*                or a use of the temp_directory scope;                    *)
(*   SpecSession  the dialogue with the bot, one inbound event at a time,  *)
(*                with the workspace and the statistics events of its      *)
(*                download.                                                *)
(***************************************************************************)
EXTENDS Integers, Sequences, FiniteSets, TLC

\* ------------------------------------------------------------------ bounds
NumUsers == 2
NumTokens == 3
MaxQuota == 2
NumHandlers == 2
MaxRetries == 3
MaxBackoff == 2

Users == 1..NumUsers
Tokens == 1..NumTokens
Handlers == 1..NumHandlers

VARIABLES
    MAX_DOWNLOADS_PER_USER, \* DownloadLimiter.MAX_DOWNLOADS_PER_USER
    active_downloads,       \* DownloadLimiter._active_downloads
    last,                   \* SpecLimiter: the last API call and what it returned
    handlers,               \* Spec: one record per handler invocation
    tt,                     \* SpecTikTok: the locals of download_tiktok_video
    tw,                     \* SpecFetch: the locals of download_twitter_video
    yt,                     \* SpecFetch: the locals of download_youtube_video/_audio
    sc,                     \* SpecFetch: one use of the temp_directory scope
    REPORT_STATES,          \* SpecSession: handlers.REPORT_STATES
    keyboard,               \* SpecSession: the buttons of the bot's last menu
    cur                     \* SpecSession: the inbound event being handled

fetchVars == <<tw, yt, sc>>
sessionVars == <<REPORT_STATES, keyboard, cur>>

vars == <<MAX_DOWNLOADS_PER_USER, active_downloads, last, handlers, tt,
          tw, yt, sc, REPORT_STATES, keyboard, cur>>

\* ------------------------------------------------------- DownloadLimiter
\* The privileged identities of the configuration (unlimited_user_ids).
UNLIMITED_USER_IDS == {1}

\* An empty dict.
EmptyTable == [u \in {} |-> {}]

\* len(self._active_downloads.get(user_id, set()))
get_active_count(tbl, user_id) ==
    IF user_id \in DOMAIN tbl THEN Cardinality(tbl[user_id]) ELSE 0

is_unlimited_user(user_id) == user_id \in UNLIMITED_USER_IDS

\* Mutants of can_download: an off-by-one comparison, a missing privileged
\* exemption, and a quota of one written into the comparison.
can_download_le(tbl, user_id) ==
    \/ user_id \in UNLIMITED_USER_IDS
    \/ get_active_count(tbl, user_id) <= MAX_DOWNLOADS_PER_USER

can_download_no_exemption(tbl, user_id) ==
    get_active_count(tbl, user_id) < MAX_DOWNLOADS_PER_USER

can_download_first_only(tbl, user_id) ==
    \/ user_id \in UNLIMITED_USER_IDS
    \/ get_active_count(tbl, user_id) < 1

can_download(tbl, user_id) ==
    IF user_id \in UNLIMITED_USER_IDS
    THEN TRUE
    ELSE get_active_count(tbl, user_id) < MAX_DOWNLOADS_PER_USER

\* Mutant of Register: the user's set is replaced by the new id.
RegisterReplaces(tbl, user_id, download_id) ==
    LET t1 == IF user_id \in DOMAIN tbl THEN tbl ELSE tbl @@ (user_id :> {})
    IN  [t1 EXCEPT ![user_id] = {download_id}]

\* dict[user_id].add(download_id), creating the set first when the key is absent.
Register(tbl, user_id, download_id) ==
    LET t1 == IF user_id \in DOMAIN tbl THEN tbl ELSE tbl @@ (user_id :> {})
    IN  [t1 EXCEPT ![user_id] = @ \cup {download_id}]

\* Mutants of start_download: no admission check at all, and a refusal that
\* registers the download all the same.
start_download_no_check(tbl, user_id, download_id) ==
    [ret |-> TRUE, tbl |-> Register(tbl, user_id, download_id)]

start_download_registers_refused(tbl, user_id, download_id) ==
    [ret |-> can_download(tbl, user_id), tbl |-> Register(tbl, user_id, download_id)]

\* Returns the bool the method returns and the table it leaves.
start_download(tbl, user_id, download_id) ==
    IF ~can_download(tbl, user_id)
    THEN [ret |-> FALSE, tbl |-> tbl]
    ELSE [ret |-> TRUE, tbl |-> Register(tbl, user_id, download_id)]

\* del dict[user_id]
DelKey(tbl, user_id) == [u \in DOMAIN tbl \ {user_id} |-> tbl[u]]

\* Mutant of finish_download: the id is discarded from every user's set.
finish_download_every_user(tbl, user_id, download_id) ==
    LET t1 == [u \in DOMAIN tbl |-> tbl[u] \ {download_id}]
    IN  [raised |-> FALSE,
         tbl |-> [u \in {v \in DOMAIN t1 : t1[v] # {}} |-> t1[u]]]

\* Mutant of finish_download: set.remove instead of set.discard (KeyError on
\* an absent id).
finish_download_remove(tbl, user_id, download_id) ==
    IF user_id \in DOMAIN tbl
    THEN IF download_id \notin tbl[user_id]
         THEN [raised |-> TRUE, tbl |-> tbl]
         ELSE LET t1 == [tbl EXCEPT ![user_id] = @ \ {download_id}]
              IN  [raised |-> FALSE,
                   tbl |-> IF t1[user_id] = {} THEN DelKey(t1, user_id) ELSE t1]
    ELSE [raised |-> FALSE, tbl |-> tbl]

\* Returns whether the method raised and the table it leaves.
finish_download(tbl, user_id, download_id) ==
    IF user_id \in DOMAIN tbl
    THEN LET t1 == [tbl EXCEPT ![user_id] = @ \ {download_id}]
         IN  [raised |-> FALSE,
              tbl |-> IF t1[user_id] = {} THEN DelKey(t1, user_id) ELSE t1]
    ELSE [raised |-> FALSE, tbl |-> tbl]

\* ------------------------------------------------ SpecLimiter: API calls
NoCall == [op |-> "none", user |-> 0, token |-> 0, ret |-> FALSE,
           raised |-> FALSE, again |-> FALSE, before |-> EmptyTable]

\* The record of a call: `again` says the same call was the previous one too.
Call(op, user_id, download_id, ret, raised) ==
    [op |-> op, user |-> user_id, token |-> download_id, ret |-> ret,
     raised |-> raised,
     again |-> (last.op = op /\ last.user = user_id /\ last.token = download_id),
     before |-> active_downloads]

\* A handler invocation that no inbound event has started yet.
IdleHandler ==
    [pc |-> "idle", user |-> 0, started |-> "na",
     limit_msg |-> <<>>, invoked |-> FALSE, delivered |-> FALSE,
     events |-> <<>>, finished |-> 0, exc |-> FALSE]

IdleHandlers == [h \in Handlers |-> IdleHandler]
\* No call of download_tiktok_video is in progress.
IdleTikTok ==
    [pc |-> "none", max_retries |-> 0, TIKTOK_RETRY_BACKOFF |-> 0, attempt |-> 0,
     outcomes |-> <<>>, sleeps |-> <<>>, temp_dir |-> FALSE,
     result |-> "none", raised |-> <<>>]

\* No call of download_twitter_video is in progress.
IdleTwitter ==
    [pc |-> "none", max_retries |-> 0, TWITTER_RETRY_BACKOFF |-> 0, attempt |-> 0,
     outcomes |-> <<>>, sleeps |-> <<>>, temp_dir |-> FALSE, files |-> {},
     gallery |-> 0, result |-> "none", content_type |-> "none", raised |-> <<>>,
     sent_with |-> "none"]

\* No call of download_youtube_video or download_youtube_audio is in progress.
IdleYouTube ==
    [pc |-> "none", fn |-> "none", temp_dir |-> FALSE, files |-> {},
     listed |-> FALSE, listing |-> <<>>, result |-> "none", raised |-> <<>>,
     metadata |-> <<>>]

\* No temp_directory scope has been entered.
IdleScope == [pc |-> "none", temp_dir |-> FALSE]

FetchIdle == tw = IdleTwitter /\ yt = IdleYouTube /\ sc = IdleScope

\* The bot has sent no menu yet.
NoKeyboard == [user |-> 0, buttons |-> <<>>]

\* No inbound event is being handled.
IdleEvent ==
    [pc |-> "idle", user |-> 0, kind |-> "none", text |-> <<>>, data |-> <<>>,
     flag |-> FALSE, route |-> "none", url |-> <<>>, quality |-> <<>>,
     started |-> "na", workspace |-> "none", content |-> "none",
     delivered |-> FALSE, sent_with |-> "none", read_from |-> "none",
     failed_at |-> "none", events |-> <<>>, saved |-> <<>>, forwarded |-> {},
     confirmed |-> FALSE, finished |-> 0, exc |-> FALSE,
     replies |-> <<>>, probe |-> [raised |-> FALSE, formats |-> <<>>],
     heights |-> <<>>, rows |-> <<>>]

SessionIdle == REPORT_STATES = {} /\ keyboard = NoKeyboard /\ cur = IdleEvent

InitLimiter ==
    /\ FetchIdle
    /\ SessionIdle
    /\ MAX_DOWNLOADS_PER_USER \in 0..MaxQuota
    /\ active_downloads = EmptyTable
    /\ last = NoCall
    /\ handlers = IdleHandlers
    /\ tt = IdleTikTok

CallCanDownload(user_id) ==
    /\ last' = Call("can_download", user_id, 0,
                    can_download(active_downloads, user_id), FALSE)
    /\ UNCHANGED <<MAX_DOWNLOADS_PER_USER, active_downloads, handlers, tt, fetchVars,
                 sessionVars>>

CallStartDownload(user_id, download_id) ==
    LET r == start_download(active_downloads, user_id, download_id)
    IN  /\ active_downloads' = r.tbl
        /\ last' = Call("start_download", user_id, download_id, r.ret, FALSE)
        /\ UNCHANGED <<MAX_DOWNLOADS_PER_USER, handlers, tt, fetchVars,
                 sessionVars>>

CallFinishDownload(user_id, download_id) ==
    LET r == finish_download(active_downloads, user_id, download_id)
    IN  /\ active_downloads' = r.tbl
        /\ last' = Call("finish_download", user_id, download_id, FALSE, r.raised)
        /\ UNCHANGED <<MAX_DOWNLOADS_PER_USER, handlers, tt, fetchVars,
                 sessionVars>>

NextLimiter ==
    \/ \E u \in Users : CallCanDownload(u)
    \/ \E u \in Users, d \in Tokens : CallStartDownload(u, d)
    \/ \E u \in Users, d \in Tokens : CallFinishDownload(u, d)

SpecLimiter == InitLimiter /\ [][NextLimiter]_vars

\* ------------------------------------------------------ Spec: bot handlers
\* Each handler invocation h handles one inbound event. Its download_id is
\* str(uuid.uuid4()), fresh for every invocation: the model uses h itself.
\* A step runs from one await to the next, as the event loop runs a coroutine.
MessageKinds == {"twitter", "tiktok", "shorts"}
CallbackKinds == {"quality", "audio"}

\* Mutant of check_download_limit: the refusal is reported to the user but the
\* handler goes on all the same.
check_download_limit_goes_on(tbl, user_id, download_id) ==
    LET r == start_download(tbl, user_id, download_id)
    IN  [ok |-> TRUE, started |-> r.ret, tbl |-> r.tbl,
         msg |-> IF r.ret THEN <<>>
                 ELSE <<get_active_count(r.tbl, user_id), MAX_DOWNLOADS_PER_USER>>]

\* _check_download_limit up to its await: ok is what it will return, msg the
\* active/quota pair of the refusal text it responds with.
check_download_limit(tbl, user_id, download_id) ==
    LET r == start_download(tbl, user_id, download_id)
    IN  [ok |-> r.ret, started |-> r.ret, tbl |-> r.tbl,
         msg |-> IF r.ret THEN <<>>
                 ELSE <<get_active_count(r.tbl, user_id), MAX_DOWNLOADS_PER_USER>>]

\* Mutant of Admit: the admission is decided but the slot is not registered.
AdmitUnregistered(h, rec) ==
    LET c == check_download_limit(active_downloads, rec.user, h)
    IN  /\ active_downloads' = active_downloads
        /\ handlers' = [handlers EXCEPT ![h] =
               [rec EXCEPT !.started = IF c.started THEN "yes" ELSE "no",
                           !.limit_msg = c.msg,
                           !.pc = IF c.ok THEN "enter_action" ELSE "limit_reply"]]

\* download_id = str(uuid.uuid4()); _check_download_limit(event, user_id, download_id)
Admit(h, rec) ==
    LET c == check_download_limit(active_downloads, rec.user, h)
    IN  /\ active_downloads' = c.tbl
        /\ handlers' = [handlers EXCEPT ![h] =
               [rec EXCEPT !.started = IF c.started THEN "yes" ELSE "no",
                           !.limit_msg = c.msg,
                           !.pc = IF c.ok THEN "enter_action" ELSE "limit_reply"]]

\* The except block: track_func(success=False), which may raise, then the
\* await of the error reply.
Except(rec, trackOk) ==
    [rec EXCEPT !.events = IF trackOk THEN Append(@, "failure") ELSE @,
                !.pc = IF trackOk THEN "err_reply" ELSE "exit_action",
                !.exc = ~trackOk]

\* Mutant of Finally: the release as the last statement of the handler instead
\* of a finally block, so that an exception leaving the handler skips it.
FinallyOnlyOnReturn(rec, tbl, download_id) ==
    IF rec.exc
    THEN [rec |-> [rec EXCEPT !.pc = "done"], tbl |-> tbl]
    ELSE [rec |-> [rec EXCEPT !.finished = @ + 1, !.pc = "done"],
          tbl |-> finish_download(tbl, rec.user, download_id).tbl]

\* finally: self.download_limiter.finish_download(user_id, download_id)
Finally(rec, tbl, download_id) ==
    [rec |-> [rec EXCEPT !.finished = @ + 1, !.pc = "done"],
     tbl |-> finish_download(tbl, rec.user, download_id).tbl]

\* The statements after the delivery, up to the end of the try body:
\* track_func(success=True), then shutil.rmtree of the workspace.
AfterDelivery(rec, trackOk, cleanupOk, trackFailOk) ==
    IF ~trackOk THEN Except(rec, trackFailOk)
    ELSE LET r1 == [rec EXCEPT !.events = Append(@, "success")]
         IN  IF cleanupOk THEN [r1 EXCEPT !.pc = "exit_action"]
             ELSE Except(r1, trackFailOk)

Init ==
    /\ FetchIdle
    /\ SessionIdle
    /\ MAX_DOWNLOADS_PER_USER \in 0..MaxQuota
    /\ active_downloads = EmptyTable
    /\ last = NoCall
    /\ handlers = IdleHandlers
    /\ tt = IdleTikTok

\* Handler h is the h-th inbound event.
IsNext(h) ==
    /\ handlers[h].pc = "idle"
    /\ \A g \in Handlers : g < h => handlers[g].pc # "idle"

\* Sender ids are opaque: a sender not seen before is a privileged identity
\* or the lowest id no earlier event came from.
IsSender(user_id) ==
    \/ user_id \in UNLIMITED_USER_IDS
    \/ \A v \in Users \ UNLIMITED_USER_IDS :
          v < user_id => \E g \in Handlers : handlers[g].user = v

\* message_handler with a Twitter, TikTok or Shorts URL: no await before the
\* admission check of _handle_twitter, _handle_tiktok, _handle_youtube_shorts.
MessageTrigger(h, user_id, kind) ==
    /\ IsNext(h)
    /\ IsSender(user_id)
    /\ Admit(h, [handlers[h] EXCEPT !.user = user_id])
    /\ UNCHANGED <<MAX_DOWNLOADS_PER_USER, last, tt, fetchVars,
                 sessionVars>>

\* callback_handler with a quality_ or audio_ token: up to `await event.answer`.
CallbackTrigger(h, user_id, kind) ==
    /\ IsNext(h)
    /\ IsSender(user_id)
    /\ handlers' = [handlers EXCEPT ![h] =
           [@ EXCEPT !.user = user_id, !.pc = "answer"]]
    /\ UNCHANGED <<MAX_DOWNLOADS_PER_USER, active_downloads, last, tt, fetchVars,
                 sessionVars>>

\* event.answer returns: _download_and_send_content runs to its first await.
AnswerReturns(h) ==
    /\ handlers[h].pc = "answer"
    /\ Admit(h, handlers[h])
    /\ UNCHANGED <<MAX_DOWNLOADS_PER_USER, last, tt, fetchVars,
                 sessionVars>>

\* event.answer raises: the callback handler ends before the admission check.
AnswerRaises(h) ==
    /\ handlers[h].pc = "answer"
    /\ handlers' = [handlers EXCEPT ![h] = [@ EXCEPT !.pc = "done", !.exc = TRUE]]
    /\ UNCHANGED <<MAX_DOWNLOADS_PER_USER, active_downloads, last, tt, fetchVars,
                 sessionVars>>

\* The refusal reply returns or raises; either way the handler ends.
LimitReply(h) ==
    /\ handlers[h].pc = "limit_reply"
    /\ \E ok \in BOOLEAN :
          handlers' = [handlers EXCEPT ![h] = [@ EXCEPT !.pc = "done", !.exc = ~ok]]
    /\ UNCHANGED <<MAX_DOWNLOADS_PER_USER, active_downloads, last, tt, fetchVars,
                 sessionVars>>

\* `async with event.client.action(...)` is entered; the handler awaits the
\* reply of the "please wait" message.
EnterAction(h) ==
    /\ handlers[h].pc = "enter_action"
    /\ handlers' = [handlers EXCEPT ![h] = [@ EXCEPT !.pc = "processing"]]
    /\ UNCHANGED <<MAX_DOWNLOADS_PER_USER, active_downloads, last, tt, fetchVars,
                 sessionVars>>

\* Entering the action scope raises: outside the inner try, so the finally
\* block runs at once.
EnterActionRaises(h) ==
    /\ handlers[h].pc = "enter_action"
    /\ LET f == Finally([handlers[h] EXCEPT !.exc = TRUE], active_downloads, h)
       IN  /\ handlers' = [handlers EXCEPT ![h] = f.rec]
           /\ active_downloads' = f.tbl
    /\ UNCHANGED <<MAX_DOWNLOADS_PER_USER, last, tt, fetchVars,
                 sessionVars>>

\* The "please wait" reply returns: the download function is called.
ProcessingReturns(h) ==
    /\ handlers[h].pc = "processing"
    /\ handlers' = [handlers EXCEPT ![h] =
           [@ EXCEPT !.pc = "download", !.invoked = TRUE]]
    /\ UNCHANGED <<MAX_DOWNLOADS_PER_USER, active_downloads, last, tt, fetchVars,
                 sessionVars>>

\* An awaited call inside the try body raises (the "please wait" reply, the
\* download function, the delivery or the deletion of the "please wait"
\* message): the except block runs.
Raises(h) ==
    /\ handlers[h].pc \in {"processing", "download", "send", "delete"}
    /\ \E trackOk \in BOOLEAN :
          handlers' = [handlers EXCEPT ![h] = Except(@, trackOk)]
    /\ UNCHANGED <<MAX_DOWNLOADS_PER_USER, active_downloads, last, tt, fetchVars,
                 sessionVars>>

\* The download function returns (file_path, metadata).
DownloadReturns(h) ==
    /\ handlers[h].pc = "download"
    /\ handlers' = [handlers EXCEPT ![h] = [@ EXCEPT !.pc = "send"]]
    /\ UNCHANGED <<MAX_DOWNLOADS_PER_USER, active_downloads, last, tt, fetchVars,
                 sessionVars>>

\* send_func returns: the file is delivered.
SendReturns(h) ==
    /\ handlers[h].pc = "send"
    /\ handlers' = [handlers EXCEPT ![h] =
           [@ EXCEPT !.pc = "delete", !.delivered = TRUE]]
    /\ UNCHANGED <<MAX_DOWNLOADS_PER_USER, active_downloads, last, tt, fetchVars,
                 sessionVars>>

\* processing_msg.delete() returns: the rest of the try body has no await.
DeleteReturns(h) ==
    /\ handlers[h].pc = "delete"
    /\ \E trackOk \in BOOLEAN, cleanupOk \in BOOLEAN, trackFailOk \in BOOLEAN :
          handlers' = [handlers EXCEPT ![h] =
              AfterDelivery(@, trackOk, cleanupOk, trackFailOk)]
    /\ UNCHANGED <<MAX_DOWNLOADS_PER_USER, active_downloads, last, tt, fetchVars,
                 sessionVars>>

\* The error reply of the except block returns or raises.
ErrReply(h) ==
    /\ handlers[h].pc = "err_reply"
    /\ \E ok \in BOOLEAN :
          handlers' = [handlers EXCEPT ![h] =
              [@ EXCEPT !.pc = "exit_action", !.exc = ~ok]]
    /\ UNCHANGED <<MAX_DOWNLOADS_PER_USER, active_downloads, last, tt, fetchVars,
                 sessionVars>>

\* The action scope is left, by return or by exception, and the finally
\* block runs.
ExitAction(h) ==
    /\ handlers[h].pc = "exit_action"
    /\ LET f == Finally(handlers[h], active_downloads, h)
       IN  /\ handlers' = [handlers EXCEPT ![h] = f.rec]
           /\ active_downloads' = f.tbl
    /\ UNCHANGED <<MAX_DOWNLOADS_PER_USER, last, tt, fetchVars,
                 sessionVars>>

Next ==
    \E h \in Handlers :
        \/ \E u \in Users, k \in MessageKinds : MessageTrigger(h, u, k)
        \/ \E u \in Users, k \in CallbackKinds : CallbackTrigger(h, u, k)
        \/ AnswerReturns(h)
        \/ AnswerRaises(h)
        \/ LimitReply(h)
        \/ EnterAction(h)
        \/ EnterActionRaises(h)
        \/ ProcessingReturns(h)
        \/ Raises(h)
        \/ DownloadReturns(h)
        \/ SendReturns(h)
        \/ DeleteReturns(h)
        \/ ErrReply(h)
        \/ ExitAction(h)

Spec == Init /\ [][Next]_vars

\* ------------------------------------- SpecTikTok: download_tiktok_video
\* A text is a sequence of words; `pat in text` is a run of consecutive words.
Contains(text, pat) ==
    \E i \in 1..(Len(text) - Len(pat) + 1) :
        SubSeq(text, i, i + Len(pat) - 1) = pat

\* The texts of the DownloadError the extractor may raise, and of the other
\* exceptions of an attempt (_find_downloaded_file's).
DownloadErrorTexts ==
    { <<"ERROR:", "Unable", "to", "extract", "data">>,
      <<"ERROR:", "Unable", "to", "download", "webpage">>,
      <<"ERROR:", "Video", "not", "available">> }

ExceptionTexts ==
    { <<"No", "media", "file", "found", "in", "download", "directory">> }

\* The configured tiktok.error_message (an English stand-in for the default).
TIKTOK_ERROR_MESSAGE ==
    <<"Cannot", "load", "the", "TikTok", "video.", "Check", "the", "link", "and",
      "try", "again", "later.">>

RECURSIVE Pow(_, _)
Pow(base, exp) == IF exp = 0 THEN 1 ELSE base * Pow(base, exp - 1)

\* Mutant of IsTransient: every extractor error is taken to be transient.
IsTransientAlways(error_msg) == TRUE

\* 'Unable to extract' in error_msg or 'webpage' in error_msg
IsTransient(error_msg) ==
    \/ Contains(error_msg, <<"Unable", "to", "extract">>)
    \/ Contains(error_msg, <<"webpage">>)

\* Mutant of WaitTime: the attempt counted from one.
WaitTimeOneBased(backoff, attempt) == Pow(backoff, attempt + 1)

\* wait_time = TIKTOK_RETRY_BACKOFF ** attempt
WaitTime(backoff, attempt) == Pow(backoff, attempt)

InitTikTok ==
    /\ FetchIdle
    /\ SessionIdle
    /\ MAX_DOWNLOADS_PER_USER = 1
    /\ active_downloads = EmptyTable
    /\ last = NoCall
    /\ handlers = IdleHandlers
    /\ \E m \in 0..MaxRetries, b \in 1..MaxBackoff :
          tt = [IdleTikTok EXCEPT !.pc = "entry", !.max_retries = m,
                                  !.TIKTOK_RETRY_BACKOFF = b]

\* temp_dir = tempfile.mkdtemp(), and the loop header: range(max_retries) is
\* empty when max_retries is 0, and the function then returns None.
TTEnter ==
    /\ tt.pc = "entry"
    /\ tt' = [tt EXCEPT !.temp_dir = TRUE,
                        !.pc = IF tt.max_retries > 0 THEN "attempt" ELSE "returned",
                        !.result = IF tt.max_retries > 0 THEN @ ELSE "None"]
    /\ UNCHANGED <<MAX_DOWNLOADS_PER_USER, active_downloads, last, handlers, fetchVars,
                 sessionVars>>

\* The attempt's try body runs to its return.
TTAttemptReturns ==
    /\ tt.pc = "attempt"
    /\ tt' = [tt EXCEPT !.outcomes = Append(@, [kind |-> "ok", text |-> <<>>]),
                        !.pc = "returned", !.result = "file"]
    /\ UNCHANGED <<MAX_DOWNLOADS_PER_USER, active_downloads, last, handlers, fetchVars,
                 sessionVars>>

\* except yt_dlp.utils.DownloadError as e
TTDownloadError(error_msg) ==
    /\ tt.pc = "attempt"
    /\ LET t1 == [tt EXCEPT !.outcomes =
                     Append(@, [kind |-> "DownloadError", text |-> error_msg])]
       IN  tt' = IF IsTransient(error_msg)
                 THEN IF tt.attempt < tt.max_retries - 1
                      THEN [t1 EXCEPT !.sleeps = Append(@,
                                WaitTime(tt.TIKTOK_RETRY_BACKOFF, tt.attempt)),
                                      !.pc = "sleeping"]
                      ELSE [t1 EXCEPT !.temp_dir = FALSE, !.pc = "raised",
                                      !.raised = TIKTOK_ERROR_MESSAGE]
                 ELSE [t1 EXCEPT !.temp_dir = FALSE, !.pc = "raised",
                                 !.raised = <<"TikTok", "download", "error:">>
                                            \o error_msg]
    /\ UNCHANGED <<MAX_DOWNLOADS_PER_USER, active_downloads, last, handlers, fetchVars,
                 sessionVars>>

\* asyncio.sleep(wait_time) returns; continue
TTWake ==
    /\ tt.pc = "sleeping"
    /\ tt' = [tt EXCEPT !.attempt = @ + 1, !.pc = "attempt"]
    /\ UNCHANGED <<MAX_DOWNLOADS_PER_USER, active_downloads, last, handlers, fetchVars,
                 sessionVars>>

\* except Exception as e: re-raised on the last attempt only; before that the
\* loop goes on to the next attempt at once.
TTException(text) ==
    /\ tt.pc = "attempt"
    /\ LET t1 == [tt EXCEPT !.outcomes =
                     Append(@, [kind |-> "Exception", text |-> text])]
       IN  tt' = IF tt.attempt = tt.max_retries - 1
                 THEN [t1 EXCEPT !.temp_dir = FALSE, !.pc = "raised",
                                 !.raised = text]
                 ELSE [t1 EXCEPT !.attempt = @ + 1]
    /\ UNCHANGED <<MAX_DOWNLOADS_PER_USER, active_downloads, last, handlers, fetchVars,
                 sessionVars>>

NextTikTok ==
    \/ TTEnter
    \/ TTAttemptReturns
    \/ \E e \in DownloadErrorTexts : TTDownloadError(e)
    \/ TTWake
    \/ \E e \in ExceptionTexts : TTException(e)

SpecTikTok == InitTikTok /\ [][NextTikTok]_vars

\* ------------------------ SpecSlot: _handle_tiktok and download_tiktok_video
\* The first inbound event is a regular user's message with a TikTok URL: its
\* handler awaits download_tiktok_video(url), and the retry loop of that call
\* runs while the handler stands at the await. The later events are further
\* download triggers of the same user, handled in the meantime.
AwaitsTikTok(h) == h = 1 /\ handlers[h].pc = "download"

NextSlot ==
    \/ AwaitsTikTok(1) /\ NextTikTok
    \/ \E h \in Handlers :
        \/ \E u \in Users \ UNLIMITED_USER_IDS, k \in MessageKinds :
              /\ h = 1 => k = "tiktok"
              /\ h # 1 => u = handlers[1].user
              /\ MessageTrigger(h, u, k)
        \/ LimitReply(h)
        \/ EnterAction(h)
        \/ EnterActionRaises(h)
        \/ ProcessingReturns(h)
        \/ /\ AwaitsTikTok(h) =>
                 tt.pc = "raised" \/ (tt.pc = "returned" /\ tt.result = "None")
           /\ Raises(h)
        \/ /\ AwaitsTikTok(h) => (tt.pc = "returned" /\ tt.result = "file")
           /\ DownloadReturns(h)
        \/ SendReturns(h)
        \/ DeleteReturns(h)
        \/ ErrReply(h)
        \/ ExitAction(h)

\* _handle_tiktok calls download_tiktok_video(url) without max_retries: the
\* configured TIKTOK_MAX_RETRIES and TIKTOK_RETRY_BACKOFF apply.
InitSlot ==
    /\ InitTikTok
    /\ tt.max_retries = MaxRetries
    /\ tt.TIKTOK_RETRY_BACKOFF = MaxBackoff

SpecSlot == InitSlot /\ [][NextSlot]_vars

\* ----------------------------------------- SpecFetch: the fetch operations
\* One fetch operation runs per behaviour: download_tiktok_video (the actions
\* of SpecTikTok), download_twitter_video, download_youtube_video/_audio, or a
\* use of the temp_directory scope.

\* The files an extractor run may leave in the workspace: a file is its
\* extension and its size.
VideoFile == [name |-> "clip.mp4", ext |-> "mp4", size |-> 1]
PhotoFile == [name |-> "photo.jpg", ext |-> "jpg", size |-> 1]
EmptyFile == [name |-> "stub.mp4", ext |-> "mp4", size |-> 0]
AudioFile == [name |-> "track.mp3", ext |-> "mp3", size |-> 1]
ThumbFile == [name |-> "thumb.jpg", ext |-> "jpg", size |-> 1]

\* os.listdir returns the entries in arbitrary order: every ordering of S.
Listings(S) ==
    { l \in [1..Cardinality(S) -> S] :
        \A i, j \in 1..Cardinality(S) : i # j => l[i] # l[j] }

\* Mutant of _find_downloaded_file: thumbnails stay among the candidates.
_find_downloaded_file_keeps_thumbnails(files, expected_extension, allow_images) ==
    IF files = <<>>
    THEN [raised |-> TRUE, text |-> <<"No", "files", "downloaded">>,
          file |-> VideoFile]
    ELSE LET HasExt(f) == f.ext = expected_extension
             exact_match == IF expected_extension # ""
                            THEN SelectSeq(files, HasExt) ELSE <<>>
             chosen == IF exact_match # <<>> THEN exact_match ELSE files
         IN  IF chosen[1].size = 0
             THEN [raised |-> TRUE, file |-> VideoFile,
                   text |-> <<"The", "downloaded", "file", "is", "empty">>]
             ELSE [raised |-> FALSE, text |-> <<>>, file |-> chosen[1]]

\* _find_downloaded_file(temp_dir, expected_extension, allow_images) over the
\* listing `files`; expected_extension "" stands for None.
_find_downloaded_file(files, expected_extension, allow_images) ==
    IF files = <<>>
    THEN [raised |-> TRUE, text |-> <<"No", "files", "downloaded">>,
          file |-> VideoFile]
    ELSE LET NotThumbnail(f) == f.ext \notin {"jpg", "png", "webp"}
             media_files == IF allow_images THEN files
                            ELSE SelectSeq(files, NotThumbnail)
             HasExt(f) == f.ext = expected_extension
             exact_match == IF expected_extension # ""
                            THEN SelectSeq(media_files, HasExt) ELSE <<>>
             chosen == IF exact_match # <<>> THEN exact_match ELSE media_files
         IN  IF chosen = <<>>
             THEN [raised |-> TRUE, file |-> VideoFile,
                   text |-> <<"No", "media", "file", "found", "in", "download",
                              "directory">>]
             ELSE IF chosen[1].size = 0
             THEN [raised |-> TRUE, file |-> VideoFile,
                   text |-> <<"The", "downloaded", "file", "is", "empty">>]
             ELSE [raised |-> FALSE, text |-> <<>>, file |-> chosen[1]]

\* Mutant of SendFunc: a tweet's content is always sent as a video.
SendFuncAlwaysVideo(c) ==
    CASE c.route = "audio" -> "send_audio_content"
      [] OTHER -> "send_video_content"

\* The send function the handler calls for the downloaded content.
SendFunc(c) ==
    CASE c.route = "twitter" /\ c.content = "photo" -> "send_image_content"
      [] c.route = "audio" -> "send_audio_content"
      [] OTHER -> "send_video_content"

\* ---- download_twitter_video
\* The texts of the DownloadError the extractor may raise for a tweet.
TwitterErrorTexts ==
    DownloadErrorTexts \cup
    { <<"ERROR:", "Unsupported", "URL", "https://x.com/u/status/1">>,
      <<"ERROR:", "No", "video", "could", "be", "found", "in", "this", "tweet">> }

\* The configured twitter.error_message (an English stand-in for the default).
TWITTER_ERROR_MESSAGE ==
    <<"Cannot", "load", "the", "Twitter", "content.", "Check", "the", "link",
      "and", "try", "again", "later.">>

\* str.lower() on the words of the error texts.
LowerWord(w) ==
    CASE w = "ERROR:" -> "error:"
      [] w = "No" -> "no"
      [] w = "Video" -> "video"
      [] w = "Unable" -> "unable"
      [] w = "Unsupported" -> "unsupported"
      [] w = "URL" -> "url"
      [] OTHER -> w

Lower(text) == [i \in 1..Len(text) |-> LowerWord(text[i])]

\* 'Unsupported URL' in error_msg or 'no video' in error_msg.lower()
\* or 'Unable to extract' in error_msg
MightBePhoto(error_msg) ==
    \/ Contains(error_msg, <<"Unsupported", "URL">>)
    \/ Contains(Lower(error_msg), <<"no", "video">>)
    \/ Contains(error_msg, <<"Unable", "to", "extract">>)

\* Mutant of TWRetry: the loop gives up one attempt early.
TWRetryGivesUpEarly(t) ==
    IF t.attempt < t.max_retries - 2
    THEN [t EXCEPT !.sleeps = Append(@, WaitTime(t.TWITTER_RETRY_BACKOFF, t.attempt)),
                   !.pc = "sleeping"]
    ELSE [t EXCEPT !.temp_dir = FALSE, !.files = {}, !.pc = "raised",
                   !.raised = TWITTER_ERROR_MESSAGE]

\* The retry logic of the DownloadError branch: sleep and continue before the
\* last attempt; on the last one remove the workspace and raise the template.
TWRetry(t) ==
    IF t.attempt < t.max_retries - 1
    THEN [t EXCEPT !.sleeps = Append(@, WaitTime(t.TWITTER_RETRY_BACKOFF, t.attempt)),
                   !.pc = "sleeping"]
    ELSE [t EXCEPT !.temp_dir = FALSE, !.files = {}, !.pc = "raised",
                   !.raised = TWITTER_ERROR_MESSAGE]

\* Mutant of TWGeneric: the error of the last attempt is logged like the
\* others, and the loop ends without a return or a raise.
TWGenericFallsThrough(t, text) ==
    LET t1 == [t EXCEPT !.outcomes = Append(@, [kind |-> "Exception", text |-> text])]
    IN  IF t.attempt = t.max_retries - 1
        THEN [t1 EXCEPT !.pc = "returned", !.result = "None"]
        ELSE [t1 EXCEPT !.attempt = @ + 1]

\* except Exception as e: on the last attempt the workspace is removed and the
\* error re-raised; before that the loop goes on to the next attempt at once.
TWGeneric(t, text) ==
    LET t1 == [t EXCEPT !.outcomes = Append(@, [kind |-> "Exception", text |-> text])]
    IN  IF t.attempt = t.max_retries - 1
        THEN [t1 EXCEPT !.temp_dir = FALSE, !.files = {}, !.pc = "raised",
                        !.raised = text]
        ELSE [t1 EXCEPT !.attempt = @ + 1]

InitTwitter ==
    /\ MAX_DOWNLOADS_PER_USER = 1
    /\ active_downloads = EmptyTable
    /\ last = NoCall
    /\ handlers = IdleHandlers
    /\ tt = IdleTikTok
    /\ yt = IdleYouTube
    /\ sc = IdleScope
    /\ SessionIdle
    /\ \E m \in 0..MaxRetries, b \in 1..MaxBackoff :
          tw = [IdleTwitter EXCEPT !.pc = "entry", !.max_retries = m,
                                   !.TWITTER_RETRY_BACKOFF = b]

\* temp_dir = tempfile.mkdtemp(), and the loop header: range(max_retries) is
\* empty when max_retries is 0, and the function then returns None.
TWEnter ==
    /\ tw.pc = "entry"
    /\ tw' = [tw EXCEPT !.temp_dir = TRUE,
                        !.pc = IF tw.max_retries > 0 THEN "attempt" ELSE "returned",
                        !.result = IF tw.max_retries > 0 THEN @ ELSE "None"]
    /\ UNCHANGED <<MAX_DOWNLOADS_PER_USER, active_downloads, last, handlers, tt,
                   yt, sc, sessionVars>>

\* extract_info and download return, having written the files F; the
\* workspace is then searched for a video and, failing that, for any file;
\* info_ok says int(info.get('duration', 0)) does not raise.
TWDownloadCompletes(F, info_ok) ==
    /\ tw.pc = "attempt"
    /\ \E l \in Listings(tw.files \cup F) :
          LET t1 == [tw EXCEPT !.files = tw.files \cup F]
              video == _find_downloaded_file(l, "", FALSE)
              any == _find_downloaded_file(l, "", TRUE)
          IN  tw' = IF video.raised /\ any.raised THEN TWGeneric(t1, any.text)
                    ELSE IF ~info_ok THEN TWGeneric(t1, <<"TypeError">>)
                    ELSE [t1 EXCEPT
                            !.outcomes = Append(@, [kind |-> "ok", text |-> <<>>]),
                            !.pc = "returned",
                            !.result = IF video.raised THEN any.file.name
                                       ELSE video.file.name,
                            !.content_type = IF video.raised THEN "photo"
                                             ELSE "video"]
    /\ UNCHANGED <<MAX_DOWNLOADS_PER_USER, active_downloads, last, handlers, tt,
                   yt, sc, sessionVars>>

\* except yt_dlp.utils.DownloadError as e: when the text may mean a photo-only
\* tweet the workspace is emptied and gallery-dl started (clean_ok says no
\* os.remove raised); otherwise, and when emptying raised, the retry logic.
TWDownloadError(error_msg, clean_ok) ==
    /\ tw.pc = "attempt"
    /\ clean_ok \/ (MightBePhoto(error_msg) /\ tw.files # {})
    /\ LET t1 == [tw EXCEPT !.outcomes =
                     Append(@, [kind |-> "DownloadError", text |-> error_msg])]
       IN  tw' = IF MightBePhoto(error_msg)
                 THEN IF clean_ok
                      THEN [t1 EXCEPT !.files = {}, !.gallery = @ + 1,
                                      !.pc = "gallery"]
                      ELSE TWRetry(t1)
                 ELSE TWRetry(t1)
    /\ UNCHANGED <<MAX_DOWNLOADS_PER_USER, active_downloads, last, handlers, tt,
                   yt, sc, sessionVars>>

\* _download_twitter_photos_with_gallery_dl returns: gallery-dl exited with 0
\* and left an image in the workspace.
TWGalleryReturns ==
    /\ tw.pc = "gallery"
    /\ tw' = [tw EXCEPT !.files = {PhotoFile}, !.pc = "returned",
                        !.result = PhotoFile.name, !.content_type = "photo"]
    /\ UNCHANGED <<MAX_DOWNLOADS_PER_USER, active_downloads, last, handlers, tt,
                   yt, sc, sessionVars>>

\* _download_twitter_photos_with_gallery_dl raises (non-zero exit, no image,
\* not installed, timeout): except Exception as gallery_error logs it and the
\* retry logic follows.
TWGalleryRaises ==
    /\ tw.pc = "gallery"
    /\ tw' = TWRetry(tw)
    /\ UNCHANGED <<MAX_DOWNLOADS_PER_USER, active_downloads, last, handlers, tt,
                   yt, sc, sessionVars>>

\* _handle_twitter, once download_twitter_video has returned file_path and
\* metadata: send_image_content when metadata.get('content_type') == 'photo',
\* send_video_content otherwise.
TWSend ==
    /\ tw.pc = "returned" /\ tw.result # "None" /\ tw.sent_with = "none"
    /\ tw' = [tw EXCEPT !.sent_with =
                 SendFunc([route |-> "twitter", content |-> tw.content_type])]
    /\ UNCHANGED <<MAX_DOWNLOADS_PER_USER, active_downloads, last, handlers, tt,
                   yt, sc, sessionVars>>

\* asyncio.sleep(wait_time) returns; continue
TWWake ==
    /\ tw.pc = "sleeping"
    /\ tw' = [tw EXCEPT !.attempt = @ + 1, !.pc = "attempt"]
    /\ UNCHANGED <<MAX_DOWNLOADS_PER_USER, active_downloads, last, handlers, tt,
                   yt, sc, sessionVars>>

\* The sets of files one extractor run may write.
TwitterDownloads == { {}, {VideoFile}, {PhotoFile}, {EmptyFile} }

NextTwitter ==
    \/ TWEnter
    \/ \E F \in TwitterDownloads, info_ok \in BOOLEAN : TWDownloadCompletes(F, info_ok)
    \/ \E e \in TwitterErrorTexts, clean_ok \in BOOLEAN : TWDownloadError(e, clean_ok)
    \/ TWGalleryReturns
    \/ TWGalleryRaises
    \/ TWSend
    \/ TWWake

\* ---- download_youtube_video, download_youtube_audio
\* AUDIO_FORMAT
AUDIO_FORMAT == "mp3"

InitYouTube ==
    /\ MAX_DOWNLOADS_PER_USER = 1
    /\ active_downloads = EmptyTable
    /\ last = NoCall
    /\ handlers = IdleHandlers
    /\ tt = IdleTikTok
    /\ tw = IdleTwitter
    /\ sc = IdleScope
    /\ SessionIdle
    /\ \E fn \in {"download_youtube_video", "download_youtube_audio"} :
          yt = [IdleYouTube EXCEPT !.pc = "entry", !.fn = fn]

\* temp_dir = tempfile.mkdtemp(); the try block is entered.
YTEnter ==
    /\ yt.pc = "entry"
    /\ yt' = [yt EXCEPT !.temp_dir = TRUE, !.pc = "extract_info"]
    /\ UNCHANGED <<MAX_DOWNLOADS_PER_USER, active_downloads, last, handlers, tt,
                   tw, sc, sessionVars>>

\* A value of the info dict: a text is a sequence of words, the empty sequence
\* stands for None and '' (both falsy), and Absent for a key that is not there.
Absent == <<"(absent)">>

\* The info dicts extract_info may return, as far as _extract_metadata reads
\* them, and the titles: with one " - ", with two, and with none.
Infos ==
    [artist : {Absent, <<>>, <<"Daft", "Punk">>},
     creator : {Absent, <<>>, <<"Creator">>},
     uploader : {Absent, <<>>, <<"Channel">>},
     track : {Absent, <<>>, <<"Get", "Lucky">>}]

Titles ==
    { <<"Artist", "-", "Song">>, <<"A", "-", "B", "-", "C">>, <<"Live", "Stream">>,
      <<"-", "Intro">> }

\* _extract_metadata(info, title): ' - ' in title is a word "-" between two
\* other words, and split(' - ', 1) cuts at the first of them.
_extract_metadata(info, title) ==
    LET Get(k, d) == IF info[k] = Absent THEN d ELSE info[k]
        artist == IF Get("artist", <<>>) # <<>> THEN Get("artist", <<>>)
                  ELSE IF Get("creator", <<>>) # <<>> THEN Get("creator", <<>>)
                  ELSE Get("uploader", <<"Unknown", "Artist">>)
        track == IF Get("track", <<>>) # <<>> THEN Get("track", <<>>) ELSE title
        seps == {i \in 2..(Len(title) - 1) : title[i] = "-"}
        first == CHOOSE i \in seps : \A j \in seps : i <= j
    IN  IF artist = <<"Unknown", "Artist">> /\ seps # {}
        THEN [artist |-> SubSeq(title, 1, first - 1),
              track |-> SubSeq(title, first + 1, Len(title))]
        ELSE [artist |-> artist, track |-> track]

\* ydl.extract_info returns info; download_youtube_audio reads the title and
\* derives artist and track from it.
YTExtractReturns(info, title) ==
    /\ yt.pc = "extract_info"
    /\ yt' = [yt EXCEPT !.pc = "download",
                        !.metadata = IF yt.fn = "download_youtube_audio"
                                     THEN <<[info |-> info, title |-> title]
                                              @@ _extract_metadata(info, title)>>
                                     ELSE @]
    /\ UNCHANGED <<MAX_DOWNLOADS_PER_USER, active_downloads, last, handlers, tt,
                   tw, sc, sessionVars>>

\* Mutant of YTExcept: the error is re-raised and the workspace left.
YTExceptLeavesWorkspace(y, text) == [y EXCEPT !.pc = "raised", !.raised = text]

\* except Exception: if os.path.exists(temp_dir): shutil.rmtree(temp_dir); raise
YTExcept(y, text) ==
    [y EXCEPT !.temp_dir = FALSE, !.files = {}, !.pc = "raised", !.raised = text]

\* ydl.download returns, having written the files F; _find_downloaded_file
\* picks the result (with AUDIO_FORMAT expected for audio) or raises.
YTDownloadReturns(F) ==
    /\ yt.pc = "download"
    /\ \E l \in Listings(F) :
          LET y1 == [yt EXCEPT !.files = F, !.listed = TRUE, !.listing = l]
              found == _find_downloaded_file(l,
                          IF yt.fn = "download_youtube_audio" THEN AUDIO_FORMAT
                          ELSE "", FALSE)
          IN  yt' = IF found.raised THEN YTExcept(y1, found.text)
                    ELSE [y1 EXCEPT !.pc = "returned", !.result = found.file.name]
    /\ UNCHANGED <<MAX_DOWNLOADS_PER_USER, active_downloads, last, handlers, tt,
                   tw, sc, sessionVars>>

\* extract_info or download raises (a DownloadError or any other Exception),
\* the latter possibly after writing the files F.
YTRaises(F, text) ==
    /\ yt.pc \in {"extract_info", "download"}
    /\ yt.pc = "extract_info" => F = {}
    /\ yt' = YTExcept([yt EXCEPT !.files = F], text)
    /\ UNCHANGED <<MAX_DOWNLOADS_PER_USER, active_downloads, last, handlers, tt,
                   tw, sc, sessionVars>>

\* The sets of files one YouTube download may write.
YouTubeDownloads ==
    { {}, {VideoFile}, {AudioFile}, {AudioFile, ThumbFile}, {ThumbFile},
      {EmptyFile}, {VideoFile, AudioFile}, {EmptyFile, AudioFile} }

NextYouTube ==
    \/ YTEnter
    \/ \E info \in Infos, title \in Titles : YTExtractReturns(info, title)
    \/ \E F \in YouTubeDownloads : YTDownloadReturns(F)
    \/ \E F \in YouTubeDownloads, e \in DownloadErrorTexts : YTRaises(F, e)

\* ---- temp_directory
InitScope ==
    /\ MAX_DOWNLOADS_PER_USER = 1
    /\ active_downloads = EmptyTable
    /\ last = NoCall
    /\ handlers = IdleHandlers
    /\ tt = IdleTikTok
    /\ tw = IdleTwitter
    /\ yt = IdleYouTube
    /\ SessionIdle
    /\ sc = [IdleScope EXCEPT !.pc = "entry"]

\* temp_dir = tempfile.mkdtemp(); yield temp_dir
SCEnter ==
    /\ sc.pc = "entry"
    /\ sc' = [sc EXCEPT !.temp_dir = TRUE, !.pc = "body"]
    /\ UNCHANGED <<MAX_DOWNLOADS_PER_USER, active_downloads, last, handlers, tt,
                   tw, yt, sessionVars>>

\* The body of the with block removes the directory itself.
SCBodyRemoves ==
    /\ sc.pc = "body"
    /\ sc.temp_dir
    /\ sc' = [sc EXCEPT !.temp_dir = FALSE]
    /\ UNCHANGED <<MAX_DOWNLOADS_PER_USER, active_downloads, last, handlers, tt,
                   tw, yt, sessionVars>>

\* finally: if os.path.exists(temp_dir): shutil.rmtree(temp_dir)
SCFinally(s, how) == [s EXCEPT !.temp_dir = FALSE, !.pc = how]

\* The body ends, by running to its end ("exited") or by raising ("raised").
SCLeave(how) ==
    /\ sc.pc = "body"
    /\ sc' = SCFinally(sc, how)
    /\ UNCHANGED <<MAX_DOWNLOADS_PER_USER, active_downloads, last, handlers, tt,
                   tw, yt, sessionVars>>

NextScope ==
    \/ SCEnter
    \/ SCBodyRemoves
    \/ \E how \in {"exited", "raised"} : SCLeave(how)

InitFetch == InitTikTok \/ InitTwitter \/ InitYouTube \/ InitScope

NextFetch == NextTikTok \/ NextTwitter \/ NextYouTube \/ NextScope

SpecFetch == InitFetch /\ [][NextFetch]_vars

\* --------------------------------------- SpecSession: the bot's dialogue
\* One inbound event (a message or a button press) is handled at a time, from
\* its arrival to the end of its handlers; `cur` keeps what the handling did
\* until the handlers have returned.

\* ---- strings
\* A string is a sequence of atoms: "_" and "/" are atoms of their own, the
\* other atoms are runs of characters holding neither. A message text is a
\* sequence of words (the runs between white space), each word a string.
RECURSIVE Split(_, _, _)
\* s.split(sep, maxsplit)
Split(s, sep, maxsplit) ==
    IF maxsplit = 0 \/ ~(\E i \in 1..Len(s) : s[i] = sep)
    THEN <<s>>
    ELSE LET i == CHOOSE i \in 1..Len(s) :
                      s[i] = sep /\ \A j \in 1..(i - 1) : s[j] # sep
         IN  <<SubSeq(s, 1, i - 1)>> \o Split(SubSeq(s, i + 1, Len(s)), sep, maxsplit - 1)

\* s.startswith(prefix)
StartsWith(s, prefix) ==
    Len(s) >= Len(prefix) /\ SubSeq(s, 1, Len(prefix)) = prefix

\* text.startswith('/')
StartsWithSlash(text) == text # <<>> /\ StartsWith(text[1], <<"/">>)

\* ---- the URL patterns of config.py
Schemes == {"http://", "https://"}

\* The number of characters of an atom that may stand in a video id.
AtomLen(a) ==
    CASE a = "dQw4w9WgXcQ" -> 11
      [] a = "AbCdEfGhIjK" -> 11
      [] a = "a1b2c" -> 5
      [] a = "d3e4f" -> 5
      [] a = "_" -> 1
      [] OTHER -> 12

\* Where a match whose host atom is w[i] starts: the optional sub-domain and
\* the optional scheme before it belong to the match.
MatchStart(w, i, subs) ==
    LET s == IF i > 1 /\ w[i - 1] \in subs THEN i - 1 ELSE i
    IN  IF s > 1 /\ w[s - 1] \in Schemes THEN s - 1 ELSE s

\* (https?://)?(sub)?(host)/(\S+) at host atom w[i]: the end of the match, or 0.
SocialEnd(w, i, hosts) ==
    IF w[i] \in hosts /\ i + 2 <= Len(w) /\ w[i + 1] = "/" THEN Len(w) ELSE 0

RECURSIVE IdEnd(_, _, _)
\* ([^&=%\?]{11}) from atom k on: the index of the atom the id ends with, or 0.
IdEnd(w, k, need) ==
    IF k > Len(w) \/ AtomLen(w[k]) > need THEN 0
    ELSE IF AtomLen(w[k]) = need THEN k
    ELSE IdEnd(w, k + 1, need - AtomLen(w[k]))

\* YOUTUBE_REGEX at host atom w[i]: the end of the match, or 0.
YouTubeEnd(w, i) ==
    IF w[i] \in {"youtube.com", "youtu.be", "youtube-nocookie.com"}
         /\ i + 2 <= Len(w) /\ w[i + 1] = "/"
    THEN IF w[i + 2] \in {"watch?v=", "embed/", "v/", "shorts/"}
         THEN IdEnd(w, i + 3, 11)
         ELSE IdEnd(w, i + 2, 11)
    ELSE 0

\* The pattern named `regex` at host atom w[i]: the end of the match, or 0.
PatternEnd(regex, w, i) ==
    CASE regex = "TWITTER_REGEX" -> SocialEnd(w, i, {"twitter.com", "x.com"})
      [] regex = "TIKTOK_REGEX" -> SocialEnd(w, i, {"tiktok.com"})
      [] OTHER -> YouTubeEnd(w, i)

\* The optional sub-domains of the pattern named `regex`.
SubDomains(regex) ==
    CASE regex = "TWITTER_REGEX" -> {"www.", "mobile."}
      [] regex = "TIKTOK_REGEX" -> {"www.", "vm.", "vt."}
      [] OTHER -> {"www."}

\* regex.search(text): the leftmost match; the result is match.group(0), or
\* <<>> when nothing matches.
Search(regex, text) ==
    LET Hits == UNION { { <<n, i>> : i \in { j \in 1..Len(text[n]) :
                                                 PatternEnd(regex, text[n], j) # 0 } } :
                        n \in 1..Len(text) }
    IN  IF Hits = {} THEN <<>>
        ELSE LET p == CHOOSE p \in Hits :
                         \A q \in Hits : p[1] < q[1] \/ (p[1] = q[1] /\ p[2] <= q[2])
                 w == text[p[1]]
             IN  SubSeq(w, MatchStart(w, p[2], SubDomains(regex)),
                        PatternEnd(regex, w, p[2]))

\* TWITTER_REGEX.search, TIKTOK_REGEX.search, YOUTUBE_REGEX.search
TWITTER_REGEX(text) == Search("TWITTER_REGEX", text)
TIKTOK_REGEX(text) == Search("TIKTOK_REGEX", text)
YOUTUBE_REGEX(text) == Search("YOUTUBE_REGEX", text)

\* '/shorts/' in event.message.text
HasShortsPath(text) ==
    \E n \in 1..Len(text) : \E i \in 1..(Len(text[n]) - 1) :
        text[n][i] = "/" /\ text[n][i + 1] = "shorts/"

\* ---- the messages and URLs of the dialogue
TwitterUrl == <<"https://", "x.com", "/", "u", "/", "status", "/", "1">>
TikTokUrl == <<"https://", "vm.", "tiktok.com", "/", "ZM8abc">>
ShortsUrl == <<"https://", "youtube.com", "/", "shorts/", "AbCdEfGhIjK">>
LongUrl == <<"https://", "www.", "youtube.com", "/", "watch?v=", "dQw4w9WgXcQ">>
LongUrlUnderscore == <<"https://", "youtu.be", "/", "a1b2c", "_", "d3e4f">>

\* f"https://www.youtube.com/watch?v={entry.get('id', '')}" of search_youtube,
\* for the video of LongUrl and for one whose id holds an underscore
SearchUrlUnderscore ==
    <<"https://", "www.", "youtube.com", "/", "watch?v=", "a1b2c", "_", "d3e4f">>

\* What search_youtube may return: the URLs of the results, none on an error.
SearchResults == { <<>>, <<LongUrl, SearchUrlUnderscore>> }

CancelText == << <<"/", "cancel">> >>
ReportText == << <<"/", "report">> >>
StartText == << <<"/", "start">> >>
SearchText == << <<"/", "search">>, <<"cats">> >>

\* The texts users send: free text with no link, with one link, with the
\* links of two platforms, and commands.
SessionTexts ==
    { << <<"hello">> >>, <<TwitterUrl>>, << <<"look">>, TikTokUrl >>, <<ShortsUrl>>,
      <<LongUrl>>, <<LongUrlUnderscore>>, <<LongUrl, ShortsUrl>>,
      <<TikTokUrl, TwitterUrl>>, <<LongUrl, TikTokUrl>>,
      CancelText, ReportText, StartText, SearchText }

\* ---- callback tokens
\* f"content_video_{url}", f"content_audio_{url}"
ContentButtons(url) ==
    << <<"content", "_", "video", "_">> \o url, <<"content", "_", "audio", "_">> \o url >>

\* f"audio_high_{url}", f"audio_medium_{url}", f"audio_low_{url}"
AudioButtons(url) ==
    << <<"audio", "_", "high", "_">> \o url, <<"audio", "_", "medium", "_">> \o url,
       <<"audio", "_", "low", "_">> \o url >>

\* f"select_{result['url']}" for each search result
SelectButtons(results) ==
    [i \in 1..Len(results) |-> <<"select", "_">> \o results[i]]

ReportCancel == <<"report", "_", "cancel">>

\* VIDEO_FALLBACK_QUALITIES
VIDEO_FALLBACK_QUALITIES == <<1080, 720, 480, 360, 240>>

\* ---- the format probe
\* What ydl.extract_info(url, download=False) may do: raise, or return an info
\* dict whose 'formats' list holds dicts with a height (0 stands for None or
\* a missing key) and a vcodec ("" stands for None; a missing key reads as
\* the default "none").
Format(height, vcodec) == [height |-> height, vcodec |-> vcodec]

\* The probe fails; finds no format with both a height and a video codec;
\* finds heights on the label thresholds, twice one of them, in no order;
\* finds three heights just under the thresholds.
ProbeInfos ==
    { [raised |-> TRUE, formats |-> <<>>],
      [raised |-> FALSE,
       formats |-> << Format(0, "none"), Format(0, ""), Format(480, "none"),
                      Format(0, "avc1") >>],
      [raised |-> FALSE,
       formats |-> << Format(360, "avc1"), Format(2160, "vp9"), Format(0, "none"),
                      Format(720, "avc1"), Format(720, "vp9"), Format(1440, "vp9"),
                      Format(480, "none"), Format(144, "") >>],
      [raised |-> FALSE,
       formats |-> << Format(719, "avc1"), Format(2159, "av01"),
                      Format(1439, "avc1") >>] }

RECURSIVE sorted_reverse(_)
\* sorted(available_heights, reverse=True)
sorted_reverse(S) ==
    IF S = {} THEN <<>>
    ELSE LET m == CHOOSE x \in S : \A y \in S : y <= x
         IN  <<m>> \o sorted_reverse(S \ {m})

\* Mutant of get_available_formats: no fallback when no height is found.
get_available_formats_no_fallback(info) ==
    IF info.raised THEN VIDEO_FALLBACK_QUALITIES
    ELSE sorted_reverse({ info.formats[i].height :
                            i \in { j \in 1..Len(info.formats) :
                                      /\ info.formats[j].height # 0
                                      /\ info.formats[j].vcodec \notin {"", "none"} } })

\* get_available_formats(url), info being what the probe of url gives.
get_available_formats(info) ==
    IF info.raised THEN VIDEO_FALLBACK_QUALITIES
    ELSE LET available_heights ==
                 { info.formats[i].height :
                     i \in { j \in 1..Len(info.formats) :
                               /\ info.formats[j].height # 0
                               /\ info.formats[j].vcodec # ""
                               /\ info.formats[j].vcodec # "none" } }
         IN  IF available_heights = {} THEN VIDEO_FALLBACK_QUALITIES
             ELSE sorted_reverse(available_heights)

\* ---- the quality menu
\* The label of a quality button: f"{height}p 4K", f"{height}p 2K",
\* f"{height}p HD" or f"{height}p".
QualityLabel(height) ==
    IF height >= 2160 THEN <<ToString(height), "p", "4K">>
    ELSE IF height >= 1440 THEN <<ToString(height), "p", "2K">>
    ELSE IF height >= 720 THEN <<ToString(height), "p", "HD">>
    ELSE <<ToString(height), "p">>

RECURSIVE QualityLoop(_, _, _, _, _)
\* The loop of _show_video_quality_selection from the i-th height on, with
\* the row being filled and the rows already closed.
QualityLoop(available_heights, i, row, buttons, url) ==
    IF i > Len(available_heights)
    THEN IF row # <<>> THEN Append(buttons, row) ELSE buttons
    ELSE LET height == available_heights[i]
             \* Button.inline(label, data=f"quality_{quality_id}_{url}")
             button == [text |-> QualityLabel(height),
                        data |-> <<"quality", "_", ToString(height), "p", "_">> \o url]
             row1 == Append(row, button)
         IN  IF Len(row1) = 2
             THEN QualityLoop(available_heights, i + 1, <<>>, Append(buttons, row1), url)
             ELSE QualityLoop(available_heights, i + 1, row1, buttons, url)

\* Mutant of _show_video_quality_selection: the row left open is dropped.
_show_video_quality_selection_full_rows(available_heights, url) ==
    LET n == Len(available_heights) - (Len(available_heights) % 2)
    IN  QualityLoop(SubSeq(available_heights, 1, n), 1, <<>>, <<>>, url)

\* The rows of buttons _show_video_quality_selection builds.
_show_video_quality_selection(available_heights, url) ==
    QualityLoop(available_heights, 1, <<>>, <<>>, url)

RECURSIVE ButtonData(_)
\* The tokens of the buttons of a menu, row after row.
ButtonData(rows) ==
    IF rows = <<>> THEN <<>>
    ELSE [i \in 1..Len(rows[1]) |-> rows[1][i].data] \o ButtonData(Tail(rows))

\* Tokens no menu of the bot holds.
StrayData == { <<"bogus">>, <<"delete", "_", "1">>, <<"audio", "_", "medium">> }

\* ---- the handlers
\* The attributes DownloadLimiter.__init__ gives an instance.
DownloadLimiterAttributes ==
    {"MAX_DOWNLOADS_PER_USER", "UNLIMITED_USER_IDS", "DOWNLOAD_TIMEOUT",
     "CLEANUP_INTERVAL", "_active_downloads"}

\* config.ADMIN_USER_IDS
ADMIN_USER_IDS == {1}

\* The download_id of the session's download: one is in flight at a time.
SessionToken == 1

\* Mutant of TrackEvent: the tier is not stored with the event.
TrackEventWithoutFormat(c, success, error_message) ==
    [event_type |-> IF c.route \in {"twitter", "tiktok"} THEN "tiktok_download"
                    ELSE IF c.route = "audio" THEN "audio_download"
                    ELSE "video_download",
     video_format |-> <<>>,
     platform |-> IF c.route \in {"twitter", "tiktok"} THEN "tiktok"
                  ELSE IF c.route = "shorts" THEN "youtube_shorts" ELSE "youtube",
     success |-> success, error_message |-> error_message]

\* The event the statistics repository stores for a download: track_tiktok_download
\* (used by _handle_tiktok and by _handle_twitter), track_video_download and
\* track_audio_download; video_format <<>> stands for None.
TrackEvent(c, success, error_message) ==
    LET e == CASE c.route \in {"twitter", "tiktok"} ->
                    [event_type |-> "tiktok_download", video_format |-> <<>>,
                     platform |-> "tiktok"]
               [] c.route = "shorts" ->
                    [event_type |-> "video_download", video_format |-> <<"auto">>,
                     platform |-> "youtube_shorts"]
               [] c.route = "quality" ->
                    [event_type |-> "video_download", video_format |-> c.quality,
                     platform |-> "youtube"]
               [] OTHER ->
                    [event_type |-> "audio_download", video_format |-> c.quality,
                     platform |-> "youtube"]
    IN  [event_type |-> e.event_type, video_format |-> e.video_format,
         platform |-> e.platform, success |-> success,
         error_message |-> error_message]

\* What the route's download function may return: metadata content_type, or
\* the kind of file for the YouTube functions.
DownloadResults(route) ==
    CASE route = "twitter" -> {"video", "photo"}
      [] route = "audio" -> {"audio"}
      [] OTHER -> {"video"}

\* str(e) of the exception a step raises.
ErrorText(stage) == <<stage, "failed">>

\* An event of user u has arrived and its handlers have run to their end.
Begin(u, kind) == [IdleEvent EXCEPT !.pc = "done", !.user = u, !.kind = kind]

\* Mutant of in_report_state: the report flag is not looked at.
in_report_state_ignored(states, user_id) == FALSE

\* user_id in REPORT_STATES and REPORT_STATES[user_id]
in_report_state(states, user_id) == user_id \in states

\* _check_download_limit for the session's download.
SAdmit(c, tbl) ==
    LET r == check_download_limit(tbl, c.user, SessionToken)
    IN  [cur |-> [c EXCEPT !.started = IF r.started THEN "yes" ELSE "no",
                           !.pc = IF r.ok THEN "enter_action" ELSE "limit_reply"],
         tbl |-> r.tbl]

\* A reply reaches the user when the call that sends it returns.
Sent(ok, reply) == IF ok THEN <<reply>> ELSE <<>>

\* Mutant of ReportBranch: /cancel is answered but the flag is left set.
ReportBranchCancelKeepsFlag(c, states, ok) ==
    IF StartsWithSlash(c.text)
    THEN [cur |-> [c EXCEPT !.route = IF c.text = CancelText THEN "cancel" ELSE "command"],
          states |-> states]
    ELSE [cur |-> [c EXCEPT !.route = "report", !.saved = Append(@, c.text),
                            !.exc = TRUE],
          states |-> states]

\* Mutant of ReportBranch: a command other than /cancel is taken as the report.
ReportBranchCommandsSaved(c, states, ok) ==
    IF c.text = CancelText
    THEN [cur |-> [c EXCEPT !.route = "cancel", !.exc = ~ok],
          states |-> states \ {c.user}]
    ELSE [cur |-> [c EXCEPT !.route = "report", !.saved = Append(@, c.text),
                            !.exc = TRUE],
          states |-> states]

\* The report branch of message_handler: a command ends it (only /cancel
\* clears the flag); any other text is saved, forwarded to the admins,
\* confirmed, and the flag cleared. The admins are read from an attribute of
\* the DownloadLimiter instance.
ReportBranch(c, states, ok) ==
    IF StartsWithSlash(c.text)
    THEN IF c.text = CancelText
         THEN [cur |-> [c EXCEPT !.route = "cancel", !.exc = ~ok,
                                 !.replies = @ \o Sent(ok, "report_cancelled")],
               states |-> states \ {c.user}]
         ELSE [cur |-> [c EXCEPT !.route = "command"], states |-> states]
    ELSE LET c1 == [c EXCEPT !.route = "report", !.saved = Append(@, c.text)]
         IN  IF "ADMIN_USER_IDS" \in DownloadLimiterAttributes
             THEN IF ok
                  THEN [cur |-> [c1 EXCEPT !.forwarded = ADMIN_USER_IDS, !.confirmed = TRUE,
                                           !.replies = Append(@, "report_sent")],
                        states |-> states \ {c.user}]
                  ELSE [cur |-> [c1 EXCEPT !.forwarded = ADMIN_USER_IDS, !.exc = TRUE],
                        states |-> states]
             ELSE [cur |-> [c1 EXCEPT !.exc = TRUE], states |-> states]

\* Mutant of Detect: the TikTok pattern is tried before the Twitter pattern.
DetectTikTokFirst(c, tbl, kb, ok) ==
    LET twitter_match == TWITTER_REGEX(c.text)
        tiktok_match == TIKTOK_REGEX(c.text)
        youtube_match == YOUTUBE_REGEX(c.text)
        Download(route, url) ==
            LET a == SAdmit([c EXCEPT !.route = route, !.url = url], tbl)
            IN  [cur |-> a.cur, tbl |-> a.tbl, kb |-> kb]
    IN  IF tiktok_match # <<>> THEN Download("tiktok", tiktok_match)
        ELSE IF twitter_match # <<>> THEN Download("twitter", twitter_match)
        ELSE IF youtube_match = <<>>
        THEN [cur |-> [c EXCEPT !.route = "no_link", !.exc = ~ok,
                                !.replies = @ \o Sent(ok, "send_a_valid_link")],
              tbl |-> tbl, kb |-> kb]
        ELSE IF HasShortsPath(c.text) THEN Download("shorts", youtube_match)
        ELSE [cur |-> [c EXCEPT !.route = "long", !.url = youtube_match, !.exc = ~ok,
                                !.replies = @ \o Sent(ok, "content_menu")],
              tbl |-> tbl,
              kb |-> IF ok THEN [user |-> c.user, buttons |-> ContentButtons(youtube_match)]
                     ELSE kb]

\* URL detection of message_handler, after the report branch and the command
\* check: Twitter first, then TikTok, then YouTube (Shorts or long-form).
Detect(c, tbl, kb, ok) ==
    LET twitter_match == TWITTER_REGEX(c.text)
        tiktok_match == TIKTOK_REGEX(c.text)
        youtube_match == YOUTUBE_REGEX(c.text)
        Download(route, url) ==
            LET a == SAdmit([c EXCEPT !.route = route, !.url = url], tbl)
            IN  [cur |-> a.cur, tbl |-> a.tbl, kb |-> kb]
    IN  IF twitter_match # <<>> THEN Download("twitter", twitter_match)
        ELSE IF tiktok_match # <<>> THEN Download("tiktok", tiktok_match)
        ELSE IF youtube_match = <<>>
        THEN [cur |-> [c EXCEPT !.route = "no_link", !.exc = ~ok,
                                !.replies = @ \o Sent(ok, "send_a_valid_link")],
              tbl |-> tbl, kb |-> kb]
        ELSE IF HasShortsPath(c.text) THEN Download("shorts", youtube_match)
        ELSE [cur |-> [c EXCEPT !.route = "long", !.url = youtube_match, !.exc = ~ok,
                                !.replies = @ \o Sent(ok, "content_menu")],
              tbl |-> tbl,
              kb |-> IF ok THEN [user |-> c.user, buttons |-> ContentButtons(youtube_match)]
                     ELSE kb]

\* The command handlers registered before message_handler, each run when its
\* pattern matches the start of the text: report_handler sets the user's flag
\* and sends the prompt with the cancel button; search_handler answers a query
\* with one select button per result; start_handler replies.
CommandHandlers(user_id, text, states, kb, ok, results) ==
    LET quiet == [states |-> states, kb |-> kb, replies |-> <<>>]
    IN  IF StartsWith(text[1], ReportText[1])
        THEN [states |-> states \cup {user_id},
              kb |-> IF ok THEN [user |-> user_id, buttons |-> <<ReportCancel>>] ELSE kb,
              replies |-> Sent(ok, "report_prompt")]
        ELSE IF StartsWith(text[1], SearchText[1])
        THEN IF ~ok THEN quiet
             ELSE IF Len(text) = 1 THEN [quiet EXCEPT !.replies = <<"search_usage">>]
             ELSE IF results = <<>>
             THEN [quiet EXCEPT !.replies = <<"searching", "nothing_found">>]
             ELSE [quiet EXCEPT !.replies = <<"searching", "search_results">>,
                                !.kb = [user |-> user_id,
                                        buttons |-> SelectButtons(results)]]
        ELSE IF StartsWith(text[1], StartText[1])
        THEN [quiet EXCEPT !.replies = Sent(ok, "MSG_START")]
        ELSE quiet

\* A message of user_id arrives: the command handlers whose pattern matches,
\* then message_handler. `ok` says the handlers' respond/edit calls return
\* normally, `results` is what search_youtube returns.
SMessage(user_id, text, ok, results) ==
    /\ cur.pc = "idle"
    /\ LET h == CommandHandlers(user_id, text, REPORT_STATES, keyboard, ok, results)
           states1 == h.states
           kb1 == h.kb
           c == [Begin(user_id, "message") EXCEPT !.text = text,
                                                  !.flag = user_id \in states1,
                                                  !.replies = h.replies]
       IN  IF in_report_state(states1, user_id)
           THEN LET r == ReportBranch(c, states1, ok)
                IN  /\ cur' = r.cur
                    /\ REPORT_STATES' = r.states
                    /\ keyboard' = kb1
                    /\ active_downloads' = active_downloads
           ELSE IF StartsWithSlash(text)
           THEN /\ cur' = [c EXCEPT !.route = "command"]
                /\ REPORT_STATES' = states1
                /\ keyboard' = kb1
                /\ active_downloads' = active_downloads
           ELSE LET d == Detect(c, active_downloads, kb1, ok)
                IN  /\ cur' = d.cur
                    /\ REPORT_STATES' = states1
                    /\ keyboard' = d.kb
                    /\ active_downloads' = d.tbl
    /\ UNCHANGED <<MAX_DOWNLOADS_PER_USER, last, handlers, tt, fetchVars>>

\* Mutant of TokenParts: the separator splits everywhere.
TokenPartsSplitEverywhere(data) == Split(data, "_", Len(data))

\* data.split('_', 2)
TokenParts(data) == Split(data, "_", 2)

\* Mutant of UnknownData: the press is answered with an error message.
UnknownDataAnswered(c, ok) ==
    [c EXCEPT !.route = "unknown", !.exc = ~ok,
              !.replies = @ \o Sent(ok, "unknown_button")]

\* No prefix of the table matches: logger.warning(f"Unknown callback data: {data}")
UnknownData(c, ok) == [c EXCEPT !.route = "unknown"]

\* callback_handler on the token `data`: report_cancel, then the prefix table.
\* `ok` says the handler's answer/respond/edit calls return normally, info is
\* what the format probe gives.
Dispatch(c, states, kb, ok, info) ==
    LET parts == TokenParts(c.data)
        menu(buttons) == IF ok THEN [user |-> c.user, buttons |-> buttons] ELSE kb
    IN  IF c.data = ReportCancel
        THEN [cur |-> [c EXCEPT !.route = "report_cancel", !.exc = ~ok,
                                !.replies = @ \o Sent(ok, "report_cancelled")],
              states |-> states \ {c.user}, kb |-> menu(<<>>)]
        ELSE IF StartsWith(c.data, <<"select", "_">>)
        THEN [cur |-> [c EXCEPT !.route = "select", !.exc = ~ok,
                                !.url = SubSeq(c.data, 3, Len(c.data)),
                                !.replies = @ \o Sent(ok, "content_menu")],
              states |-> states,
              kb |-> menu(ContentButtons(SubSeq(c.data, 3, Len(c.data))))]
        ELSE IF StartsWith(c.data, <<"content", "_">>)
        THEN IF Len(parts) # 3
             THEN [cur |-> [c EXCEPT !.route = "malformed"], states |-> states, kb |-> kb]
             ELSE IF parts[2] = <<"video">>
             THEN LET available_heights == get_available_formats(info)
                      rows == _show_video_quality_selection(available_heights, parts[3])
                  IN  [cur |-> [c EXCEPT !.route = "content_video", !.url = parts[3],
                                         !.exc = ~ok,
                                         !.probe = IF ok THEN info ELSE @,
                                         !.heights = IF ok THEN available_heights ELSE <<>>,
                                         !.rows = IF ok THEN rows ELSE <<>>,
                                         !.replies = @ \o Sent(ok,
                                             IF rows = <<>> THEN "no_formats"
                                             ELSE "quality_menu")],
                       states |-> states, kb |-> menu(ButtonData(rows))]
             ELSE IF parts[2] = <<"audio">>
             THEN [cur |-> [c EXCEPT !.route = "content_audio", !.url = parts[3],
                                     !.exc = ~ok,
                                     !.replies = @ \o Sent(ok, "audio_menu")],
                   states |-> states, kb |-> menu(AudioButtons(parts[3]))]
             ELSE [cur |-> [c EXCEPT !.route = "content_other"], states |-> states,
                   kb |-> kb]
        ELSE IF StartsWith(c.data, <<"quality", "_">>) \/ StartsWith(c.data, <<"audio", "_">>)
        THEN IF Len(parts) # 3
             THEN [cur |-> [c EXCEPT !.route = "malformed"], states |-> states, kb |-> kb]
             ELSE [cur |-> [c EXCEPT !.route = parts[1][1], !.quality = parts[2],
                                     !.url = parts[3], !.pc = "answer"],
                   states |-> states, kb |-> kb]
        ELSE IF StartsWith(c.data, <<"stats", "_">>)
        THEN [cur |-> [c EXCEPT !.route = "stats", !.exc = ~ok,
                                !.replies = @ \o Sent(ok, "stats")],
              states |-> states, kb |-> kb]
        ELSE [cur |-> UnknownData(c, ok), states |-> states, kb |-> kb]

\* The tokens user_id can press: the buttons of the menu the bot sent last to
\* that user, or a stray token.
Pressable(user_id) ==
    (IF keyboard.user = user_id
     THEN { keyboard.buttons[i] : i \in 1..Len(keyboard.buttons) } ELSE {})
    \cup StrayData

\* A button press of user_id arrives.
SCallback(user_id, data, ok, info) ==
    /\ cur.pc = "idle"
    /\ data \in Pressable(user_id)
    /\ LET c == [Begin(user_id, "callback") EXCEPT !.data = data,
                                                   !.flag = user_id \in REPORT_STATES]
           r == Dispatch(c, REPORT_STATES, keyboard, ok, info)
       IN  /\ cur' = r.cur
           /\ REPORT_STATES' = r.states
           /\ keyboard' = r.kb
    /\ UNCHANGED <<MAX_DOWNLOADS_PER_USER, active_downloads, last, handlers, tt,
                   fetchVars>>

\* await event.answer(...) of _handle_quality_callback / _handle_audio_callback
\* returns: the admission check of _download_and_send_content follows.
SAnswerReturns ==
    /\ cur.pc = "answer"
    /\ LET a == SAdmit(cur, active_downloads)
       IN  cur' = a.cur /\ active_downloads' = a.tbl
    /\ UNCHANGED <<MAX_DOWNLOADS_PER_USER, last, handlers, tt, fetchVars,
                   REPORT_STATES, keyboard>>

\* await event.answer(...) raises: the handler ends before the admission check.
SAnswerRaises ==
    /\ cur.pc = "answer"
    /\ cur' = [cur EXCEPT !.pc = "done", !.exc = TRUE]
    /\ UNCHANGED <<MAX_DOWNLOADS_PER_USER, active_downloads, last, handlers, tt,
                   fetchVars, REPORT_STATES, keyboard>>

\* The refusal reply of _check_download_limit returns or raises; the handler ends.
SLimitReply(ok) ==
    /\ cur.pc = "limit_reply"
    /\ cur' = [cur EXCEPT !.pc = "done", !.exc = ~ok,
                          !.replies = @ \o Sent(ok, "limit_reached")]
    /\ UNCHANGED <<MAX_DOWNLOADS_PER_USER, active_downloads, last, handlers, tt,
                   fetchVars, REPORT_STATES, keyboard>>

\* finally: self.download_limiter.finish_download(user_id, download_id)
SFinally(c, tbl) ==
    [cur |-> [c EXCEPT !.finished = @ + 1, !.pc = "done"],
     tbl |-> finish_download(tbl, c.user, SessionToken).tbl]

\* async with event.client.action(...) is entered, or entering it raises and
\* the finally block runs.
SEnterAction(ok) ==
    /\ cur.pc = "enter_action"
    /\ LET f == SFinally([cur EXCEPT !.exc = TRUE, !.failed_at = "enter_action"],
                         active_downloads)
       IN  IF ok THEN cur' = [cur EXCEPT !.pc = "processing"]
                      /\ active_downloads' = active_downloads
           ELSE cur' = f.cur /\ active_downloads' = f.tbl
    /\ UNCHANGED <<MAX_DOWNLOADS_PER_USER, last, handlers, tt, fetchVars,
                   REPORT_STATES, keyboard>>

\* The "please wait" message has been sent.
SProcessingReturns ==
    /\ cur.pc = "processing"
    /\ cur' = [cur EXCEPT !.pc = "download", !.replies = Append(@, "please_wait")]
    /\ UNCHANGED <<MAX_DOWNLOADS_PER_USER, active_downloads, last, handlers, tt,
                   fetchVars, REPORT_STATES, keyboard>>

\* Mutant of Fetched: the download function hands the path over after its
\* workspace has been removed.
FetchedFromClosedScope(c, content) ==
    [c EXCEPT !.workspace = "removed", !.content = content, !.pc = "send"]

\* file_path, metadata = await download_func(...): the file lies in the
\* workspace the download function created and left in place.
Fetched(c, content) ==
    [c EXCEPT !.workspace = "exists", !.content = content, !.pc = "send"]

SDownloadReturns(content) ==
    /\ cur.pc = "download"
    /\ content \in DownloadResults(cur.route)
    /\ cur' = Fetched(cur, content)
    /\ UNCHANGED <<MAX_DOWNLOADS_PER_USER, active_downloads, last, handlers, tt,
                   fetchVars, REPORT_STATES, keyboard>>

\* await send_func(event, file_path, ...) returns: the file has been read from
\* the workspace and delivered.
SSendReturns ==
    /\ cur.pc = "send"
    /\ cur' = [cur EXCEPT !.delivered = TRUE, !.sent_with = SendFunc(cur),
                          !.read_from = cur.workspace, !.pc = "delete"]
    /\ UNCHANGED <<MAX_DOWNLOADS_PER_USER, active_downloads, last, handlers, tt,
                   fetchVars, REPORT_STATES, keyboard>>

\* The except block: the failure is tracked (track_ok says the tracking call
\* returns), then the error reply is awaited.
SExcept(c, stage, track_ok) ==
    LET c1 == [c EXCEPT !.failed_at = IF @ = "none" THEN stage ELSE @]
    IN  IF track_ok
        THEN [c1 EXCEPT !.events = Append(@, TrackEvent(c, FALSE, ErrorText(stage))),
                        !.pc = "err_reply"]
        ELSE [c1 EXCEPT !.exc = TRUE, !.pc = "exit_action"]

\* A step of the try body raises: the "please wait" reply, the download
\* function, the send function or processing_msg.delete().
SRaises(track_ok) ==
    /\ cur.pc \in {"processing", "download", "send", "delete"}
    /\ cur' = SExcept(cur, cur.pc, track_ok)
    /\ UNCHANGED <<MAX_DOWNLOADS_PER_USER, active_downloads, last, handlers, tt,
                   fetchVars, REPORT_STATES, keyboard>>

\* processing_msg.delete() returns; the success is tracked and the workspace
\* removed (either may raise, which leads to the except block).
SDeleteReturns(track_ok, cleanup_ok, track_fail_ok) ==
    /\ cur.pc = "delete"
    /\ cur' = IF ~track_ok THEN SExcept(cur, "track", track_fail_ok)
              ELSE LET c1 == [cur EXCEPT !.events = Append(@, TrackEvent(cur, TRUE, <<>>))]
                   IN  IF cleanup_ok
                       THEN [c1 EXCEPT !.workspace = "removed", !.pc = "exit_action"]
                       ELSE SExcept(c1, "rmtree", track_fail_ok)
    /\ UNCHANGED <<MAX_DOWNLOADS_PER_USER, active_downloads, last, handlers, tt,
                   fetchVars, REPORT_STATES, keyboard>>

\* The error reply of the except block returns or raises.
SErrReply(ok) ==
    /\ cur.pc = "err_reply"
    /\ cur' = [cur EXCEPT !.pc = "exit_action", !.exc = ~ok,
                          !.replies = @ \o Sent(ok, "error")]
    /\ UNCHANGED <<MAX_DOWNLOADS_PER_USER, active_downloads, last, handlers, tt,
                   fetchVars, REPORT_STATES, keyboard>>

\* The action scope is left and the finally block releases the slot.
SExitAction ==
    /\ cur.pc = "exit_action"
    /\ LET f == SFinally(cur, active_downloads)
       IN  cur' = f.cur /\ active_downloads' = f.tbl
    /\ UNCHANGED <<MAX_DOWNLOADS_PER_USER, last, handlers, tt, fetchVars,
                   REPORT_STATES, keyboard>>

\* The event's handlers have ended; the client waits for the next event.
SReturn ==
    /\ cur.pc = "done"
    /\ cur' = IdleEvent
    /\ UNCHANGED <<MAX_DOWNLOADS_PER_USER, active_downloads, last, handlers, tt,
                   fetchVars, REPORT_STATES, keyboard>>

\* The quota is configuration: no download allowed to a regular user, or
\* MaxQuota at a time (one event is handled at a time, so any positive quota
\* admits it).
InitSession ==
    /\ MAX_DOWNLOADS_PER_USER \in {0, MaxQuota}
    /\ active_downloads = EmptyTable
    /\ last = NoCall
    /\ handlers = IdleHandlers
    /\ tt = IdleTikTok
    /\ FetchIdle
    /\ SessionIdle

NextSession ==
    \/ \E u \in Users, text \in SessionTexts, ok \in BOOLEAN, results \in SearchResults :
          SMessage(u, text, ok, results)
    \/ \E u \in Users, ok \in BOOLEAN, info \in ProbeInfos :
          \E data \in Pressable(u) : SCallback(u, data, ok, info)
    \/ SAnswerReturns
    \/ SAnswerRaises
    \/ \E ok \in BOOLEAN : SLimitReply(ok)
    \/ \E ok \in BOOLEAN : SEnterAction(ok)
    \/ SProcessingReturns
    \/ \E content \in {"video", "photo", "audio"} : SDownloadReturns(content)
    \/ SSendReturns
    \/ \E track_ok \in BOOLEAN : SRaises(track_ok)
    \/ \E track_ok, cleanup_ok, track_fail_ok \in BOOLEAN :
          SDeleteReturns(track_ok, cleanup_ok, track_fail_ok)
    \/ \E ok \in BOOLEAN : SErrReply(ok)
    \/ SExitAction
    \/ SReturn

SpecSession == InitSession /\ [][NextSession]_vars

\* ------------------------------------------------------------------ claims
Regular == Users \ UNLIMITED_USER_IDS

\* C1: whatever sequence of start_download and finish_download calls is made,
\* the active count of a user who is not in UNLIMITED_USER_IDS never exceeds
\* MAX_DOWNLOADS_PER_USER.
C1_QuotaNeverExceeded ==
    \A u \in Regular :
        get_active_count(active_downloads, u) <= MAX_DOWNLOADS_PER_USER

\* A regular user holding a full quota of two has just been refused a third slot.
C1_Witness ==
    /\ MAX_DOWNLOADS_PER_USER = 2
    /\ last.op = "start_download" /\ last.user \in Regular /\ ~last.ret
    /\ get_active_count(active_downloads, last.user) = 2

\* The handlers of user u that were admitted and have not ended yet.
Holders(u) ==
    {h \in Handlers : /\ handlers[h].user = u
                      /\ handlers[h].started = "yes"
                      /\ handlers[h].pc # "done"}

\* C2: the admission check-and-register is atomic: of the concurrently running
\* handlers of a regular user no more than the quota have got true from
\* start_download, each of them holds its own registered slot, and so two
\* handlers competing for the one free slot are never both admitted.
C2_AdmissionAtomic ==
    \A u \in Regular :
        /\ Cardinality(Holders(u)) <= MAX_DOWNLOADS_PER_USER
        /\ \A h \in Holders(u) :
              u \in DOMAIN active_downloads /\ h \in active_downloads[u]

\* With a quota of one, two callback handlers of one regular user have both
\* passed their await and run the admission check: one holds the slot, the
\* other was refused.
C2_Witness ==
    /\ MAX_DOWNLOADS_PER_USER = 1
    /\ \E g \in Handlers, h \in Handlers :
          /\ g # h
          /\ handlers[g].user \in Regular
          /\ handlers[h].user = handlers[g].user
          /\ handlers[g].started = "yes" /\ handlers[g].pc = "enter_action"
          /\ handlers[h].started = "no" /\ handlers[h].pc = "limit_reply"

\* C3: a handler that got true from start_download has called finish_download
\* exactly once when it ends, however it ends, and one that was not admitted
\* never calls it; once every handler that started has ended, every user's
\* active count is 0.
C3_ReleasedExactlyOnce ==
    /\ \A h \in Handlers :
          /\ handlers[h].finished <= 1
          /\ handlers[h].pc = "done" =>
                handlers[h].finished = IF handlers[h].started = "yes" THEN 1 ELSE 0
    /\ (\A h \in Handlers : handlers[h].pc \in {"idle", "done"}) =>
          \A u \in Users : get_active_count(active_downloads, u) = 0

\* Every handler has ended, one of them by the exception of its error reply
\* after a failure was recorded, and its slot was released.
C3_Witness ==
    /\ \A h \in Handlers : handlers[h].pc = "done"
    /\ \E h \in Handlers :
          /\ handlers[h].started = "yes" /\ handlers[h].exc
          /\ handlers[h].events = <<"failure">>
          /\ handlers[h].finished = 1

\* C4: start_download returns what can_download says of the state it is called
\* in; when it returns true the token is registered for that user, and when it
\* returns false the slot table is exactly as it was.
C4_StartMatchesCanDownload ==
    last.op = "start_download" =>
        /\ last.ret = can_download(last.before, last.user)
        /\ last.ret =>
              /\ last.user \in DOMAIN active_downloads
              /\ last.token \in active_downloads[last.user]
              /\ active_downloads = Register(last.before, last.user, last.token)
        /\ ~last.ret =>
              /\ active_downloads = last.before
              /\ get_active_count(active_downloads, last.user)
                   = get_active_count(last.before, last.user)

\* A start_download that was refused while the caller held one slot.
C4_Witness ==
    /\ last.op = "start_download" /\ ~last.ret
    /\ MAX_DOWNLOADS_PER_USER = 1
    /\ get_active_count(last.before, last.user) = 1
    /\ last.token \notin last.before[last.user]

\* C5: for a user in UNLIMITED_USER_IDS can_download and start_download
\* return true in every state, however many slots the user holds.
C5_PrivilegedNeverRefused ==
    /\ \A u \in UNLIMITED_USER_IDS :
          /\ can_download(active_downloads, u)
          /\ \A d \in Tokens : start_download(active_downloads, u, d).ret
    /\ (last.op \in {"can_download", "start_download"}
          /\ last.user \in UNLIMITED_USER_IDS) => last.ret

\* A privileged user was admitted while already holding more than the quota.
C5_Witness ==
    /\ last.op = "start_download" /\ last.user \in UNLIMITED_USER_IDS /\ last.ret
    /\ MAX_DOWNLOADS_PER_USER >= 1
    /\ get_active_count(last.before, last.user) > MAX_DOWNLOADS_PER_USER

\* The id a finish_download call names was not registered when it was called.
FinishOfAbsent ==
    \/ last.user \notin DOMAIN last.before
    \/ last.token \notin last.before[last.user]

\* C6: finish_download never raises; called for a token or a user that is not
\* registered (never was, or was finished already) it leaves the slot table
\* unchanged; calling it once more changes nothing; no active count is negative.
C6_FinishIdempotent ==
    /\ \A u \in Users : get_active_count(active_downloads, u) >= 0
    /\ last.op = "finish_download" =>
          /\ ~last.raised
          /\ FinishOfAbsent => active_downloads = last.before
          /\ finish_download(active_downloads, last.user, last.token)
               = [raised |-> FALSE, tbl |-> active_downloads]

\* The same finish_download was called twice in a row while other slots are held.
C6_Witness ==
    /\ last.op = "finish_download" /\ last.again
    /\ FinishOfAbsent
    /\ last.before # EmptyTable

\* C7: can_download(user) returns true exactly when the user is privileged or
\* holds fewer than MAX_DOWNLOADS_PER_USER slots; so when a registered download
\* of a regular user has been finished, that user can download again.
C7_CanDownloadIff ==
    /\ last.op = "can_download" =>
          (last.ret <=> (\/ is_unlimited_user(last.user)
                         \/ get_active_count(last.before, last.user)
                              < MAX_DOWNLOADS_PER_USER))
    /\ (/\ last.op = "finish_download"
        /\ last.user \in Regular
        /\ ~FinishOfAbsent) =>
          /\ can_download(active_downloads, last.user)
          /\ \A d \in Tokens : start_download(active_downloads, last.user, d).ret

\* A regular user at a quota of two, who could not download, has finished one
\* download.
C7_Witness ==
    /\ last.op = "finish_download" /\ last.user \in Regular /\ ~FinishOfAbsent
    /\ MAX_DOWNLOADS_PER_USER = 2
    /\ get_active_count(last.before, last.user) = 2
    /\ ~can_download(last.before, last.user)

\* What a refused handler leaves behind: the refusal text shows active/quota
\* (both the quota, for a regular user), no download function was invoked and
\* no download event recorded.
RefusedClean ==
    \A h \in Handlers :
        handlers[h].started = "no" =>
            /\ handlers[h].pc \in {"limit_reply", "done"}
            /\ handlers[h].limit_msg
                 = <<MAX_DOWNLOADS_PER_USER, MAX_DOWNLOADS_PER_USER>>
            /\ ~handlers[h].invoked
            /\ ~handlers[h].delivered
            /\ handlers[h].events = <<>>
            /\ handlers[h].finished = 0

\* The admission step of a handler whose regular user holds a full quota.
RefusedStep ==
    \A h \in Handlers :
        (/\ handlers[h].started = "na"
         /\ handlers'[h].started # "na"
         /\ handlers'[h].user \in Regular
         /\ get_active_count(active_downloads, handlers'[h].user)
              >= MAX_DOWNLOADS_PER_USER) =>
            /\ handlers'[h].started = "no"
            /\ handlers'[h].pc = "limit_reply"
            /\ handlers'[h].limit_msg
                 = <<get_active_count(active_downloads, handlers'[h].user),
                     MAX_DOWNLOADS_PER_USER>>
            /\ active_downloads' = active_downloads

\* C8: a download trigger (a Twitter, TikTok or Shorts message, a quality_ or
\* audio_ callback) of a regular user who holds a full quota is refused: the
\* handler responds with the active/quota text, the slot table is left
\* unchanged, and the handler invokes no download function and records no
\* download event.
C8_RefusedAtQuota == []RefusedClean /\ [][RefusedStep]_vars

\* A handler of a regular user who held a full quota of one was refused and
\* has ended, while the download holding the slot is still being fetched.
C8_Witness ==
    /\ MAX_DOWNLOADS_PER_USER = 1
    /\ \E g \in Handlers, h \in Handlers :
          /\ handlers[h].started = "no" /\ handlers[h].pc = "done"
          /\ handlers[h].user \in Regular
          /\ handlers[h].limit_msg = <<1, 1>>
          /\ handlers[g].user = handlers[h].user
          /\ handlers[g].pc = "download"

\* The spec's transient signatures, as the text of an extractor error shows them.
TransientSignature(text) ==
    \/ Contains(text, <<"Unable", "to", "extract">>)
    \/ Contains(text, <<"webpage">>)

IsDownloadError(o) == o.kind = "DownloadError"

\* The first n attempts each failed with a transient extractor error.
TransientRun(n) ==
    /\ Len(tt.outcomes) >= n
    /\ \A i \in 1..n :
          IsDownloadError(tt.outcomes[i]) /\ TransientSignature(tt.outcomes[i].text)

\* C9: when the extractor fails with a transient signature max_retries-1 times
\* and then succeeds, download_tiktok_video returns the result, having slept
\* exactly max_retries-1 times, for backoff^0, backoff^1, ... seconds in that
\* order, and not after the successful attempt.
C9_RetryThenSuccess ==
    (/\ tt.max_retries >= 1
     /\ TransientRun(tt.max_retries - 1)
     /\ Len(tt.outcomes) = tt.max_retries
     /\ tt.outcomes[tt.max_retries].kind = "ok") =>
        /\ tt.pc = "returned" /\ tt.result = "file"
        /\ tt.sleeps = [i \in 1..(tt.max_retries - 1) |->
                           Pow(tt.TIKTOK_RETRY_BACKOFF, i - 1)]

\* Three attempts with a backoff base of 2: two transient failures, sleeps of
\* 1 and 2 seconds, then the success.
C9_Witness ==
    /\ tt.pc = "returned" /\ tt.result = "file"
    /\ tt.max_retries = 3 /\ tt.TIKTOK_RETRY_BACKOFF = 2
    /\ TransientRun(2) /\ Len(tt.outcomes) = 3
    /\ tt.sleeps = <<1, 2>>

\* The first attempt failed with an extractor error of no transient signature.
FirstFailureTerminal ==
    /\ Len(tt.outcomes) >= 1
    /\ IsDownloadError(tt.outcomes[1])
    /\ ~TransientSignature(tt.outcomes[1].text)

AllTransient(outcomes) ==
    \A i \in 1..Len(outcomes) :
        IsDownloadError(outcomes[i]) /\ TransientSignature(outcomes[i].text)

C12_FallbackAtMostOnce == tw.gallery <= 1

\* C14: whenever a fetch operation ends by raising, the workspace it created
\* no longer exists: download_tiktok_video, download_twitter_video,
\* download_youtube_video and download_youtube_audio remove it before the
\* error leaves them, and the temp_directory scope removes it on both exits.
C14_RaisedFetchLeavesNoWorkspace ==
    /\ tt.pc = "raised" => ~tt.temp_dir
    /\ tw.pc = "raised" => ~tw.temp_dir
    /\ yt.pc = "raised" => ~yt.temp_dir
    /\ sc.pc \in {"exited", "raised"} => ~sc.temp_dir

\* download_youtube_audio raised after the download had written a file into
\* the workspace (an empty one).
C14_Witness ==
    /\ yt.pc = "raised" /\ yt.fn = "download_youtube_audio"
    /\ yt.raised = <<"The", "downloaded", "file", "is", "empty">>
    /\ ~yt.temp_dir

\* The send function, or the step after it, raised after the file had been
\* fetched.
FailedAfterFetch == cur.content # "none" /\ cur.failed_at \in {"send", "delete"}

\* C13: when the download succeeds but the delivery (send_func, or a later
\* step of the handler's try block) raises, the workspace holding the file
\* has been removed by the time the handler ends.
C13_WorkspaceRemovedAfterFailedDelivery ==
    (cur.pc = "done" /\ FailedAfterFetch) => cur.workspace = "removed"

\* C15: in every download the download function returns the file, then the
\* file is delivered, then the workspace is removed: nothing is delivered
\* before its download completed, the delivery reads from a workspace that
\* still exists, and a workspace is removed only after the delivery.
C15_FetchDeliverRemoveInOrder ==
    /\ cur.delivered => (cur.content # "none" /\ cur.read_from = "exists")
    /\ cur.pc = "send" => cur.workspace = "exists"
    /\ cur.workspace = "removed" => cur.delivered

\* A download ran to its end: fetched, delivered, workspace removed.
C15_Witness ==
    /\ cur.pc = "done" /\ cur.route = "shorts"
    /\ cur.delivered /\ cur.workspace = "removed" /\ cur.failed_at = "none"

\* C16: every admitted download has recorded exactly one outcome event when
\* its slot is released: a success event if the file was delivered, a failure
\* event carrying the error text otherwise; never both, and never a failure
\* for a delivered file.
C16_ExactlyOneOutcomeEvent ==
    (cur.pc = "done" /\ cur.started = "yes") =>
        /\ cur.finished = 1
        /\ Len(cur.events) = 1
        /\ cur.events[1].success = cur.delivered
        /\ ~cur.delivered => cur.events[1].error_message # <<>>

\* An event that is marked as a photo in one of its fields.
MarkedPhoto(e) ==
    e.event_type = "photo" \/ e.platform = "photo" \/ e.video_format = <<"photo">>

\* C17: when a Twitter/X download produces a photo and it is delivered, the
\* success event recorded for it is marked with kind "photo".
C17_PhotoSuccessMarkedPhoto ==
    (/\ cur.pc = "done" /\ cur.route = "twitter" /\ cur.content = "photo"
     /\ cur.delivered /\ cur.failed_at = "none") =>
        \E i \in 1..Len(cur.events) :
            cur.events[i].success /\ MarkedPhoto(cur.events[i])

\* The token of a two-level menu button, as the scenario names it.
Token(menu, choice, url) == <<menu, "_", choice, "_">> \o url

\* The handling of the event ended with no step having raised.
EndedCleanly == cur.pc = "done" /\ ~cur.exc /\ cur.failed_at = "none"

\* C18: a long-form YouTube URL message is answered with the content-type
\* menu; the content_audio_<url> press is answered with three audio quality
\* buttons; the audio_medium_<url> press, with the fetch and the delivery
\* succeeding, ends with exactly one event, a success of kind audio_download
\* and format "medium" for that URL, and with the user's slot released.
C18_AudioMediumScenario ==
    \A url \in {LongUrl, LongUrlUnderscore} :
        /\ (EndedCleanly /\ cur.kind = "message" /\ cur.text = <<url>> /\ ~cur.flag) =>
              keyboard = [user |-> cur.user,
                          buttons |-> <<Token("content", "video", url),
                                        Token("content", "audio", url)>>]
        /\ (EndedCleanly /\ cur.kind = "callback"
              /\ cur.data = Token("content", "audio", url)) =>
              keyboard = [user |-> cur.user,
                          buttons |-> <<Token("audio", "high", url),
                                        Token("audio", "medium", url),
                                        Token("audio", "low", url)>>]
        /\ (EndedCleanly /\ cur.kind = "callback"
              /\ cur.data = Token("audio", "medium", url) /\ cur.delivered) =>
              /\ cur.url = url
              /\ cur.sent_with = "send_audio_content"
              /\ cur.events = << [event_type |-> "audio_download",
                                  video_format |-> <<"medium">>,
                                  platform |-> "youtube", success |-> TRUE,
                                  error_message |-> <<>>] >>
              /\ cur.finished = 1
              /\ get_active_count(active_downloads, cur.user) = 0

\* The third step of the scenario has ended, for the URL with an underscore
\* in its video id and a user under the quota.
C18_Witness ==
    /\ EndedCleanly /\ cur.kind = "callback" /\ cur.user \in Regular
    /\ cur.data = Token("audio", "medium", LongUrlUnderscore)
    /\ cur.delivered /\ Len(cur.events) = 1 /\ cur.started = "yes"

\* The message is free text, not a command.
FreeText == cur.kind = "message" /\ ~StartsWithSlash(cur.text)

\* C19: when a user whose report capture is active sends free text, the
\* text is persisted as the report, forwarded to every admin, confirmed to
\* the sender, and the user's flag is cleared.
C19_ReportForwardedConfirmedCleared ==
    (cur.pc = "done" /\ FreeText /\ cur.flag) =>
        /\ cur.saved = <<cur.text>>
        /\ cur.forwarded = ADMIN_USER_IDS
        /\ cur.confirmed
        /\ cur.user \notin REPORT_STATES

\* Where URL detection sends each free text of the dialogue.
ExpectedRoute(text) ==
    CASE text = <<TwitterUrl>> -> "twitter"
      [] text = << <<"look">>, TikTokUrl >> -> "tiktok"
      [] text \in {<<ShortsUrl>>, <<LongUrl, ShortsUrl>>} -> "shorts"
      [] text = <<TikTokUrl, TwitterUrl>> -> "twitter"
      [] text = <<LongUrl, TikTokUrl>> -> "tiktok"
      [] text \in {<<LongUrl>>, <<LongUrlUnderscore>>} -> "long"
      [] OTHER -> "no_link"

\* C20: while report capture is active for a user, every free-text message of
\* that user, one with a supported URL included, goes to report handling: no
\* URL is detected, no slot is taken, no download starts. The free text of a
\* user whose flag is not active goes through URL detection.
C20_ReportCaptureBeforeUrlDetection ==
    FreeText =>
        IF cur.flag
        THEN /\ cur.route = "report" /\ cur.pc = "done"
             /\ cur.url = <<>> /\ cur.started = "na" /\ cur.content = "none"
             /\ get_active_count(active_downloads, cur.user) = 0
        ELSE cur.route = ExpectedRoute(cur.text)

\* A user in report capture has sent a tweet's URL, while the other user's
\* flag is not active.
C20_Witness ==
    /\ cur.pc = "done" /\ FreeText /\ cur.flag /\ cur.text = <<TwitterUrl>>
    /\ cur.route = "report" /\ cur.saved = <<cur.text>>
    /\ REPORT_STATES = {cur.user}

\* The message is a command other than the cancel token.
OtherCommand ==
    cur.kind = "message" /\ StartsWithSlash(cur.text) /\ cur.text # CancelText

\* C21: while report capture is active for a user, a command of that user
\* other than /cancel leaves the user's flag set, is not saved as a report and
\* is forwarded to nobody by message_handler.
C21_CommandInCaptureIgnored ==
    (OtherCommand /\ cur.flag) =>
        /\ cur.user \in REPORT_STATES
        /\ cur.saved = <<>>
        /\ cur.forwarded = {}
        /\ ~cur.confirmed

\* A user whose flag was set by an earlier /report has sent /start.
C21_Witness ==
    /\ OtherCommand /\ cur.flag /\ cur.text = StartText /\ cur.pc = "done"
    /\ cur.user \in REPORT_STATES

\* The step takes in an event, cur' telling which.
Arrives == cur.pc = "idle" /\ cur'.pc # "idle"

\* The event taken in is a cancel: the report_cancel press or the /cancel text.
CancelArrives ==
    /\ Arrives
    /\ \/ cur'.kind = "callback" /\ cur'.data = ReportCancel
       \/ cur'.kind = "message" /\ cur'.text = CancelText

\* The routes URL detection ends in.
DetectionRoutes == {"twitter", "tiktok", "shorts", "long", "no_link"}

\* What C22 says of one step.
FlagLifecycleStep ==
    /\ \A u \in Users :
          (u \notin REPORT_STATES /\ u \in REPORT_STATES') =>
              /\ Arrives /\ cur'.kind = "message" /\ cur'.user = u
              /\ StartsWith(cur'.text[1], <<"/", "report">>)
    /\ CancelArrives => cur'.user \notin REPORT_STATES'
    /\ (CancelArrives /\ cur'.user \notin REPORT_STATES) =>
          /\ REPORT_STATES' = REPORT_STATES
          /\ active_downloads' = active_downloads
          /\ cur'.pc = "done" /\ cur'.started = "na"
          /\ cur'.kind = "message" => ~cur'.exc /\ cur'.replies = <<>>
          /\ (\E info \in ProbeInfos : SCallback(cur'.user, ReportCancel, TRUE, info)) =>
                ~cur'.exc
    /\ (Arrives /\ cur'.kind = "message" /\ ~StartsWithSlash(cur'.text)
          /\ cur'.user \notin REPORT_STATES) =>
          /\ cur'.route \in DetectionRoutes
          /\ cur'.saved = <<>>

\* C22: a user's report-capture flag becomes active only by a /report message
\* of that user; a cancel (the report_cancel press or the /cancel text) leaves
\* the user's flag inactive; a cancel of a user whose flag is not active
\* raises nothing and changes neither a flag nor the admission table; and the
\* free text of a user whose flag is inactive, as it is from a cancel until
\* the user's next /report, goes through URL detection.
C22_FlagSetByReportClearedByCancel == [][FlagLifecycleStep]_vars

\* The report_cancel press has cleared the flag of a user in report capture,
\* without raising.
C22_Witness ==
    /\ cur.kind = "callback" /\ cur.data = ReportCancel /\ cur.flag
    /\ cur.user \notin REPORT_STATES /\ ~cur.exc /\ cur.pc = "done"

\* The token is not report_cancel and starts with none of the five prefixes.
Unrecognized(data) ==
    /\ data # <<"report", "_", "cancel">>
    /\ \A prefix \in {"select", "content", "quality", "audio", "stats"} :
          ~(Len(data) >= 2 /\ data[1] = prefix /\ data[2] = "_")

\* What C23 says of one step.
UnrecognizedStep ==
    (Arrives /\ cur'.kind = "callback" /\ Unrecognized(cur'.data)) =>
        /\ ~cur'.exc
        /\ cur'.replies = <<>> /\ cur'.rows = <<>> /\ ~cur'.delivered
        /\ cur'.started = "na" /\ cur'.content = "none" /\ cur'.events = <<>>
        /\ cur'.pc = "done"
        /\ UNCHANGED <<REPORT_STATES, keyboard, active_downloads>>

\* C23: a press whose token is not report_cancel and has none of the prefixes
\* select_, content_, quality_, audio_, stats_ is ignored: callback_handler
\* raises nothing, sends nothing, takes no slot, starts no download and
\* changes no report-capture flag.
C23_UnrecognizedTokenIgnored == [][UnrecognizedStep]_vars

\* A user in report capture, with a menu on screen, has pressed a button whose
\* token no handler knows.
C23_Witness ==
    /\ cur.kind = "callback" /\ cur.data = <<"delete", "_", "1">> /\ cur.pc = "done"
    /\ cur.flag /\ keyboard.user = cur.user /\ keyboard.buttons # <<>>

\* f"{verb}_{k}_{url}", k a string with no underscore.
Emitted(verb, k, url) == <<verb, "_">> \o k \o <<"_">> \o url

\* The URLs the bot puts into tokens: two have an underscore in the video id.
TokenUrls == {LongUrl, LongUrlUnderscore, SearchUrlUnderscore}

\* The kinds and tiers the bot puts into tokens.
ContentKinds == { <<"video">>, <<"audio">> }
AudioTiers == { <<"high">>, <<"medium">>, <<"low">> }
VideoTiers ==
    { <<ToString(h), "p">> : h \in {2160, 2159, 1440, 1439, 1080, 720, 719, 480, 360, 240} }

\* C24: a token emitted as content_<k>_<u>, quality_<k>_<u> or audio_<k>_<u>,
\* k holding no underscore, is parsed back by the handler it goes to into
\* exactly (k, u), and select_<u> into exactly u, whether or not u holds
\* underscores.
C24_TokenRoundTrip ==
    (cur.kind = "callback") =>
        \A u \in TokenUrls :
            /\ cur.data = <<"select", "_">> \o u =>
                  cur.route = "select" /\ cur.url = u
            /\ \A k \in ContentKinds :
                  cur.data = Emitted("content", k, u) =>
                      cur.route = "content_" \o k[1] /\ cur.url = u
            /\ \A k \in VideoTiers :
                  cur.data = Emitted("quality", k, u) =>
                      cur.route = "quality" /\ cur.quality = k /\ cur.url = u
            /\ \A k \in AudioTiers :
                  cur.data = Emitted("audio", k, u) =>
                      cur.route = "audio" /\ cur.quality = k /\ cur.url = u

\* A search result whose id holds an underscore has been selected, video
\* chosen, and the 1440p button pressed: the URL has gone through select_,
\* content_ and quality_ tokens.
C24_Witness ==
    /\ cur.kind = "callback"
    /\ cur.data = Emitted("quality", <<"1440", "p">>, SearchUrlUnderscore)
    /\ cur.url = SearchUrlUnderscore /\ cur.quality = <<"1440", "p">>

\* The event is a text message, a select_ press or a content_ press.
MenuStep ==
    \/ cur.kind = "message"
    \/ cur.kind = "callback" /\ Len(cur.data) >= 2 /\ cur.data[2] = "_"
         /\ cur.data[1] \in {"select", "content"}

\* The event is a quality_<tier>_<url> or audio_<tier>_<url> press.
TierPress ==
    /\ cur.kind = "callback" /\ Len(cur.data) >= 2 /\ cur.data[2] = "_"
    /\ cur.data[1] \in {"quality", "audio"}

\* C25: for a long-form YouTube URL, the text message, the select_ press and
\* the content_ press take no slot and call no download function (when they
\* end without raising, the user's menu holds the buttons they emitted); the
\* admission check and the download happen only in the handling of a
\* quality_<tier>_<url> or audio_<tier>_<url> press.
C25_LongFormDownloadOnlyOnTierPress ==
    (cur.url \in TokenUrls) =>
        /\ MenuStep =>
              /\ cur.started = "na" /\ cur.content = "none" /\ cur.finished = 0
              /\ cur.pc = "done"
              /\ ~cur.exc => keyboard.user = cur.user /\ keyboard.buttons # <<>>
        /\ (cur.started # "na" \/ cur.content # "none") => TierPress

\* C26: a free text outside report capture is classified in a fixed order:
\* when the Twitter/X pattern matches, the match is handled as a social-post
\* download, whatever else matches; otherwise a TikTok match is handled as a
\* TikTok download even if the YouTube pattern matches too; a text no pattern
\* matches gets the "send a valid link" reply, takes no slot and starts no
\* download.
C26_ClassificationPriority ==
    (FreeText /\ ~cur.flag) =>
        IF TWITTER_REGEX(cur.text) # <<>>
        THEN /\ cur.route = "twitter" /\ cur.url = TWITTER_REGEX(cur.text)
             /\ cur.started # "na"
        ELSE IF TIKTOK_REGEX(cur.text) # <<>>
        THEN /\ cur.route = "tiktok" /\ cur.url = TIKTOK_REGEX(cur.text)
             /\ cur.started # "na"
        ELSE IF YOUTUBE_REGEX(cur.text) # <<>>
        THEN cur.route \in {"shorts", "long"} /\ cur.url = YOUTUBE_REGEX(cur.text)
        ELSE /\ cur.route = "no_link" /\ cur.pc = "done"
             /\ ~cur.exc => cur.replies = <<"send_a_valid_link">>
             /\ cur.started = "na" /\ cur.content = "none" /\ cur.url = <<>>
             /\ get_active_count(active_downloads, cur.user) = 0

\* A text with a TikTok link followed by a tweet's link is being downloaded as
\* a social post.
C26_Witness ==
    /\ FreeText /\ ~cur.flag /\ cur.text = <<TikTokUrl, TwitterUrl>>
    /\ TIKTOK_REGEX(cur.text) = TikTokUrl
    /\ cur.route = "twitter" /\ cur.url = TwitterUrl /\ cur.pc = "download"

\* The URL is on the short-form sub-path: host/shorts/<id>.
OnShortsPath(url) ==
    \E i \in 1..(Len(url) - 1) : url[i] = "/" /\ url[i + 1] = "shorts/"

\* The free text, outside report capture, whose match is a YouTube URL.
YouTubeText ==
    /\ FreeText /\ ~cur.flag
    /\ TWITTER_REGEX(cur.text) = <<>> /\ TIKTOK_REGEX(cur.text) = <<>>
    /\ YOUTUBE_REGEX(cur.text) # <<>>

\* C27: a text message whose match is a YouTube URL goes to the direct fetch,
\* with no content-type or quality buttons, if and only if the matched URL is
\* on the /shorts/ sub-path; when the matched URL is long-form the message
\* gets the content-type buttons and no download.
C27_DirectFetchIffShortsUrl ==
    YouTubeText =>
        /\ cur.url = YOUTUBE_REGEX(cur.text)
        /\ cur.route = "shorts" <=> OnShortsPath(cur.url)
        /\ cur.route = "shorts" =>
              /\ cur.started # "na" /\ cur.rows = <<>>
              /\ "content_menu" \notin { cur.replies[i] : i \in 1..Len(cur.replies) }
        /\ ~OnShortsPath(cur.url) =>
              /\ cur.route = "long" /\ cur.started = "na" /\ cur.pc = "done"
              /\ ~cur.exc => /\ cur.replies = <<"content_menu">>
                             /\ keyboard = [user |-> cur.user,
                                            buttons |-> <<Token("content", "video", cur.url),
                                                          Token("content", "audio", cur.url)>>]

\* The label the claim gives a height.
TierLabel(h) ==
    CASE h >= 2160 -> <<ToString(h), "p", "4K">>
      [] h >= 1440 /\ h < 2160 -> <<ToString(h), "p", "2K">>
      [] h >= 720 /\ h < 1440 -> <<ToString(h), "p", "HD">>
      [] OTHER -> <<ToString(h), "p">>

RECURSIVE Concat(_)
\* The rows of a menu laid end to end.
Concat(rows) == IF rows = <<>> THEN <<>> ELSE rows[1] \o Concat(Tail(rows))

\* The quality menu has been shown for the heights the probe returned.
QualityMenuShown == cur.route = "content_video" /\ ~cur.exc

\* C28: the quality menu holds exactly one button per height the probe
\* returned, in the probe's order, labelled "<h>p 4K" from 2160 up, "<h>p 2K"
\* from 1440, "<h>p HD" from 720 and "<h>p" below, each carrying the token
\* quality_<h>p_<url>; every row holds two buttons, except that the last may
\* hold one.
C28_QualityMenuLayout ==
    QualityMenuShown =>
        LET buttons == Concat(cur.rows)
        IN  /\ Len(buttons) = Len(cur.heights)
            /\ \A i \in 1..Len(buttons) :
                  /\ buttons[i].text = TierLabel(cur.heights[i])
                  /\ buttons[i].data =
                        <<"quality", "_", ToString(cur.heights[i]), "p", "_">> \o cur.url
            /\ \A r \in 1..Len(cur.rows) :
                  \/ Len(cur.rows[r]) = 2
                  \/ r = Len(cur.rows) /\ Len(cur.rows[r]) = 1
            /\ keyboard.user = cur.user
            /\ keyboard.buttons = [i \in 1..Len(buttons) |-> buttons[i].data]

\* The menu for three heights just under the thresholds: a full row and a row
\* of one.
C28_Witness ==
    /\ QualityMenuShown /\ cur.heights = <<2159, 1439, 719>>
    /\ Len(cur.rows) = 2 /\ Len(cur.rows[2]) = 1
    /\ cur.rows[2][1].text = <<"719", "p">>

\* The heights of the formats of the probe's info that have a video codec.
VideoHeights(info) ==
    { f.height : f \in { info.formats[i] : i \in 1..Len(info.formats) }
                        \cap [height : Nat \ {0}, vcodec : {"avc1", "vp9", "av01"}] }

\* The sequence falls strictly.
StrictlyDescending(s) == \A i \in 1..(Len(s) - 1) : s[i] > s[i + 1]

\* C29: whatever the metadata probe does, get_available_formats returns a
\* non-empty list and its caller goes on: the distinct heights of the formats
\* that have a video codec, strictly descending, or the ladder 1080, 720, 480,
\* 360, 240 when there is no such height or the probe fails.
C29_ProbeNeverEmpty ==
    QualityMenuShown =>
        /\ cur.heights # <<>>
        /\ IF cur.probe.raised \/ VideoHeights(cur.probe) = {}
           THEN cur.heights = <<1080, 720, 480, 360, 240>>
           ELSE /\ { cur.heights[i] : i \in 1..Len(cur.heights) } = VideoHeights(cur.probe)
                /\ StrictlyDescending(cur.heights)

\* The probe found only formats without a height or without a video codec,
\* and the menu shows the ladder.
C29_Witness ==
    /\ QualityMenuShown /\ ~cur.probe.raised /\ Len(cur.probe.formats) = 4
    /\ VideoHeights(cur.probe) = {}
    /\ Len(cur.heights) = 5 /\ Len(cur.rows) = 3

\* The extensions of thumbnail and image sidecar files.
SidecarExts == {"jpg", "png", "webp"}

\* The entries of the listing that are no sidecar files, in the listing's order.
Remaining(listing) ==
    LET Keep(f) == f.ext \notin SidecarExts
    IN  SelectSeq(listing, Keep)

\* The extension download_youtube_audio expects; download_youtube_video
\* expects none.
Expected == IF yt.fn = "download_youtube_audio" THEN {"mp3"} ELSE {}

\* The candidate the claim has _find_downloaded_file choose, if any remains.
Chosen(listing) ==
    LET rem == Remaining(listing)
        With(f) == f.ext \in Expected
    IN  IF SelectSeq(rem, With) # <<>> THEN SelectSeq(rem, With)[1] ELSE rem[1]

\* C30: _find_downloaded_file with allow_images false never returns a
\* thumbnail or image sidecar file; it returns a candidate with the expected
\* extension when one is expected and some remaining candidate has it, else
\* the first remaining candidate; it raises "No files downloaded" for an empty
\* workspace, "No media file found" when no candidate remains and "The
\* downloaded file is empty" when the chosen candidate has zero length.
C30_FileResolution ==
    yt.listed =>
        IF yt.listing = <<>>
        THEN yt.pc = "raised" /\ yt.raised = <<"No", "files", "downloaded">>
        ELSE IF Remaining(yt.listing) = <<>>
        THEN /\ yt.pc = "raised"
             /\ SubSeq(yt.raised, 1, 4) = <<"No", "media", "file", "found">>
        ELSE IF Chosen(yt.listing).size = 0
        THEN /\ yt.pc = "raised"
             /\ yt.raised = <<"The", "downloaded", "file", "is", "empty">>
        ELSE /\ yt.pc = "returned"
             /\ yt.result = Chosen(yt.listing).name
             /\ \A f \in yt.files : f.name = yt.result => f.ext \notin SidecarExts

\* The workspace listed thumb.jpg before track.mp3 and the audio download
\* returned track.mp3.
C30_Witness ==
    /\ yt.listed /\ yt.listing = <<ThumbFile, AudioFile>>
    /\ yt.fn = "download_youtube_audio"
    /\ yt.pc = "returned" /\ yt.result = "track.mp3"

\* The errors file resolution raises after a download that reported success.
MissingFileTexts ==
    { <<"No", "files", "downloaded">>,
      <<"No", "media", "file", "found", "in", "download", "directory">>,
      <<"The", "downloaded", "file", "is", "empty">> }

\* An attempt of the call `op` that ended with a missing or empty file is the
\* call's last attempt, and the call has raised that error.
MissingFileEndsCall(op) ==
    \A i \in 1..Len(op.outcomes) :
        (op.outcomes[i].kind = "Exception"
           /\ op.outcomes[i].text \in MissingFileTexts) =>
            /\ i = Len(op.outcomes)
            /\ op.pc = "raised"
            /\ op.raised = op.outcomes[i].text

\* C31: an empty/missing-file outcome after a reported-successful download (no
\* files, no non-thumbnail files, a zero-length file) is terminal in
\* download_tiktok_video and download_twitter_video: no further extraction
\* attempt follows it and the error is raised to the caller.
C31_MissingFileTerminal == MissingFileEndsCall(tt) /\ MissingFileEndsCall(tw)

\* The photo-only / unsupported-URL signatures of an extractor error.
PhotoSignature(text) ==
    \/ Contains(text, <<"Unsupported", "URL">>)
    \/ Contains(Lower(text), <<"no", "video">>)

\* C32: in download_twitter_video an extractor failure whose text matches
\* neither a transient signature nor a photo-only / unsupported-URL signature
\* is terminal: no further attempt is made and no backoff sleep follows it.
C32_OtherExtractorFailureTerminal ==
    \A i \in 1..Len(tw.outcomes) :
        (/\ IsDownloadError(tw.outcomes[i])
         /\ ~TransientSignature(tw.outcomes[i].text)
         /\ ~PhotoSignature(tw.outcomes[i].text)) =>
            /\ i = Len(tw.outcomes)
            /\ Len(tw.sleeps) <= i - 1
            /\ tw.pc = "raised"

\* C33: each download attempt of a retry-wrapped operation runs in a fresh,
\* empty workspace: when an attempt of download_twitter_video starts, the
\* workspace holds no file of an earlier attempt for the file resolution to
\* find.
C33_AttemptStartsInEmptyWorkspace ==
    tw.pc = "attempt" => tw.files = {}

\* The extensions of image files.
ImageExts == {"jpg", "jpeg", "png", "webp", "gif"}

\* The file download_twitter_video returned is an image.
ReturnedImage == \E f \in tw.files : f.name = tw.result /\ f.ext \in ImageExts

\* C34: _handle_twitter delivers with send_image_content if and only if the
\* fetch result's content_type is 'photo' and with send_video_content
\* otherwise, and download_twitter_video reports content_type 'photo' exactly
\* when the file it returns is an image (produced by the fallback tool or
\* found as the only usable media in the workspace).
C34_DeliveryMatchesContentKind ==
    /\ (tw.pc = "returned" /\ tw.result # "None") =>
          /\ tw.content_type \in {"photo", "video"}
          /\ tw.content_type = "photo" <=> ReturnedImage
          /\ \E f \in tw.files : f.name = tw.result /\ f.size > 0
    /\ tw.sent_with # "none" =>
          /\ tw.sent_with = "send_image_content" <=> tw.content_type = "photo"
          /\ tw.sent_with = "send_video_content" <=> tw.content_type # "photo"

\* The extractor left only photo.jpg in the workspace: the video search found
\* nothing, the image search returned it, and it was sent as an image.
C34_Witness ==
    /\ tw.sent_with = "send_image_content"
    /\ tw.gallery = 0
    /\ tw.result = "photo.jpg"
    /\ tw.outcomes # <<>> /\ tw.outcomes[Len(tw.outcomes)].kind = "ok"

\* The download of handler 1 is in progress: the call of download_tiktok_video
\* has been made and has neither returned nor raised.
Fetching == handlers[1].pc = "download" /\ tt.pc \in {"entry", "attempt", "sleeping"}

\* Handler g passes the admission check at this step.
Checked(g) == handlers[g].started = "na" /\ handlers'[g].started # "na"

\* While the download sleeps between attempts, a trigger of the same regular
\* user is refused and changes no slot.
RefusedWhileSleeping ==
    \A g \in Handlers :
        (/\ tt.pc = "sleeping"
         /\ handlers[1].user \in Regular
         /\ Checked(g)
         /\ handlers'[g].user = handlers[1].user) =>
            /\ handlers'[g].started = "no"
            /\ handlers'[g].pc = "limit_reply"
            /\ active_downloads' = active_downloads

\* The slot of handler 1 is removed at this step.
Released ==
    /\ handlers[1].user \in DOMAIN active_downloads
    /\ 1 \in active_downloads[handlers[1].user]
    /\ \/ handlers[1].user \notin DOMAIN active_downloads'
       \/ 1 \notin active_downloads'[handlers[1].user]

\* C35: the slot of a download stays registered for the whole operation, every
\* retry attempt and every backoff sleep included: while a regular user with
\* quota 1 has a download waiting in a backoff sleep, a further download
\* trigger of that user is refused, and the slot is released only after the
\* operation has delivered or failed terminally.
C35_SlotHeldThroughRetries ==
    /\ [](Fetching =>
            /\ handlers[1].started = "yes"
            /\ handlers[1].finished = 0
            /\ handlers[1].user \in DOMAIN active_downloads
            /\ 1 \in active_downloads[handlers[1].user])
    /\ [][RefusedWhileSleeping]_vars
    /\ [][Released =>
            /\ ~Fetching
            /\ handlers'[1].pc = "done"
            /\ handlers'[1].finished = 1
            /\ handlers[1].invoked => tt.pc \in {"returned", "raised"}]_vars

\* The download of a regular user sleeps after a transient failure, its slot
\* registered, and a second trigger of that user has been refused at quota 1.
C35_Witness ==
    /\ tt.pc = "sleeping" /\ Len(tt.sleeps) = 2
    /\ handlers[1].user \in Regular
    /\ handlers[2].user = handlers[1].user
    /\ handlers[2].started = "no" /\ handlers[2].pc = "limit_reply"
    /\ handlers[2].limit_msg = <<1, 1>>
    /\ get_active_count(active_downloads, handlers[1].user) = 1

\* The metadata download_youtube_audio derived, once it has.
Derived == yt.metadata[1]

\* A field of the info dict holds a text.
Given(info, k) == info[k] # Absent /\ info[k] # <<>>

\* The title holds " - ", and the places of its first one.
Separators(title) == {i \in 2..(Len(title) - 1) : title[i] = "-"}
FirstSeparator(title) ==
    CHOOSE i \in Separators(title) : \A j \in Separators(title) : i <= j

\* C36: _extract_metadata takes artist and track from the explicit artist and
\* track fields when they are present; otherwise, when the title contains
\* " - ", from the title split at its first " - "; otherwise the uploader name
\* is the artist and the title the track. (Stated for info dicts that give
\* both explicit fields or neither, and no creator.)
C36_MetadataOrder ==
    (yt.metadata # <<>> /\ ~Given(Derived.info, "creator")) =>
        LET info == Derived.info
            title == Derived.title
        IN  /\ (Given(info, "artist") /\ Given(info, "track")) =>
                  Derived.artist = info.artist /\ Derived.track = info.track
            /\ (~Given(info, "artist") /\ ~Given(info, "track")) =>
                  IF Separators(title) # {}
                  THEN /\ Derived.artist = SubSeq(title, 1, FirstSeparator(title) - 1)
                       /\ Derived.track =
                            SubSeq(title, FirstSeparator(title) + 1, Len(title))
                  ELSE /\ Given(info, "uploader") => Derived.artist = info.uploader
                       /\ Derived.track = title

\* C37: each activation of report capture by /report results in at most one
\* persisted report: the handler that saves a free text as the report saves
\* it once and leaves the sender's capture inactive, so that a later free text
\* of that user is saved only after /report has been issued again.
C37_OneReportPerActivation ==
    (cur.pc = "done" /\ cur.saved # <<>>) =>
        /\ Len(cur.saved) = 1
        /\ ~in_report_state(REPORT_STATES, cur.user)

\* The call `op` is in progress.
Running(op) == op.pc \in {"entry", "attempt", "gallery", "sleeping"}

\* The extractor invocations of the call so far: the attempts that have ended
\* and the one under way.
Invocations(op) == Len(op.outcomes) + (IF op.pc = "attempt" THEN 1 ELSE 0)

\* How far the call is from its end, at most: four steps for each attempt left.
Rank(op) ==
    IF ~Running(op) THEN 0
    ELSE 4 * (op.max_retries - op.attempt)
           + (CASE op.pc = "entry" -> 4
                [] op.pc = "attempt" -> 3
                [] op.pc = "gallery" -> 2
                [] op.pc = "sleeping" -> 1)

\* What C38 says of one call in a state.
RetryBounded(op) ==
    op.max_retries >= 1 =>
        /\ Invocations(op) <= op.max_retries
        /\ Len(op.sleeps) <= op.max_retries - 1
        /\ op.pc = "returned" => op.result \notin {"None", "none"}
        /\ op.pc = "raised" => op.raised # <<>>

\* C38: for every max_retries >= 1, download_tiktok_video and
\* download_twitter_video invoke the extractor at most max_retries times and
\* sleep at most max_retries-1 times, and every call ends by returning a
\* result or by raising: while a call is in progress a step of it is always
\* possible, every step brings it nearer to its end, and it is never left
\* with None for a result.
C38_BoundedRetriesAndTermination ==
    /\ [](RetryBounded(tt) /\ RetryBounded(tw))
    /\ []((Running(tt) => ENABLED NextTikTok) /\ (Running(tw) => ENABLED NextTwitter))
    /\ [][/\ Running(tt) => Rank(tt') < Rank(tt)
          /\ Running(tw) => Rank(tw') < Rank(tw)]_<<tt, tw>>

\* Three attempts at a tweet: an unexpected error, an extractor error followed
\* by one sleep, then the file.
C38_Witness ==
    /\ tw.max_retries = 3 /\ tw.pc = "returned" /\ tw.result = "clip.mp4"
    /\ Len(tw.outcomes) = 3 /\ Len(tw.sleeps) = 1
    /\ tw.outcomes[1].kind = "Exception"
    /\ tw.outcomes[2].kind = "DownloadError"

\* The tokens registered for user v in the table tbl.
Slots(tbl, v) == IF v \in DOMAIN tbl THEN tbl[v] ELSE {}

\* The tokens of v for which start_download returned true and finish_download
\* has not been called since, after the last call, given those before it.
Live(v) ==
    IF last.user # v THEN Slots(last.before, v)
    ELSE IF last.op = "start_download" /\ last.ret
    THEN Slots(last.before, v) \cup {last.token}
    ELSE IF last.op = "finish_download"
    THEN Slots(last.before, v) \ {last.token}
    ELSE Slots(last.before, v)

\* C39: in every reachable state get_active_count(user) is the number of
\* distinct tokens for which start_download(user, token) returned true and
\* finish_download(user, token) has not been called since, for privileged and
\* regular users alike: no slot is registered at first, and every call leaves
\* exactly the live tokens registered.
C39_ActiveCountIsLiveTokens ==
    /\ last.op = "none" => \A v \in Users : get_active_count(active_downloads, v) = 0
    /\ last.op # "none" =>
          \A v \in Users :
              /\ Slots(active_downloads, v) = Live(v)
              /\ get_active_count(active_downloads, v) = Cardinality(Live(v))

\* A regular user has started the one token it holds a second time, and
\* counts one download; a privileged user holds three.
C39_Witness ==
    /\ last.op = "start_download" /\ last.ret /\ last.user \in Regular
    /\ last.token \in Slots(last.before, last.user)
    /\ get_active_count(active_downloads, last.user) = 1
    /\ \E v \in UNLIMITED_USER_IDS : get_active_count(active_downloads, v) = 3

\* C40: start_download and finish_download for one user leave every other
\* user's registered slots and active count unchanged, and with them the
\* answer can_download gives the other user: one user reaching the quota
\* never causes another user's download to be refused.
C40_OtherUsersUntouched ==
    last.op \in {"start_download", "finish_download"} =>
        /\ \A v \in Users \ {last.user} :
              /\ Slots(active_downloads, v) = Slots(last.before, v)
              /\ get_active_count(active_downloads, v)
                    = get_active_count(last.before, v)
              /\ can_download(active_downloads, v) = can_download(last.before, v)
        /\ (last.op = "start_download" /\ ~last.ret) =>
              /\ last.user \in Regular
              /\ get_active_count(last.before, last.user) >= MAX_DOWNLOADS_PER_USER

\* A regular user is admitted while another user holds as many downloads as
\* the quota allows, or more, some under the same token.
C40_Witness ==
    /\ last.op = "start_download" /\ last.ret /\ last.user \in Regular
    /\ MAX_DOWNLOADS_PER_USER >= 1
    /\ \E v \in Users \ {last.user} :
          /\ get_active_count(active_downloads, v) >= MAX_DOWNLOADS_PER_USER
          /\ last.token \in Slots(active_downloads, v)

====
